---------------------------- MODULE Spec2Model ----------------------------
(***************************************************************************)
(* Model of the value-betting core of VB_v2: team-name normalisation,      *)
(* cross-provider event matching (matching/event_matcher.py), margin       *)
(* removal, edge and stake computation and the value-bet pipeline          *)
(* (analysis/value_analyzer.py).                                           *)
(*                                                                         *)
(* Python floats are modelled as exact rationals [n, d] in lowest terms:    *)
(* rounding, overflow and underflow of floats are outside the model.       *)
(* Python dicts are modelled as records [keys, val]: the insertion-ordered *)
(* key sequence and the key -> value function.                             *)
(***************************************************************************)
EXTENDS Integers, Sequences, FiniteSets, TLC

(***************************************************************************)
(* Bounds of the model.                                                    *)
(***************************************************************************)
MaxLeft == 2
MaxRight == 2

(***************************************************************************)
(* Exact rational arithmetic.                                              *)
(***************************************************************************)
Abs(x) == IF x < 0 THEN -x ELSE x

RECURSIVE Gcd(_, _)
Gcd(a, b) == IF b = 0 THEN a ELSE Gcd(b, a % b)

Rat(num, den) ==
    LET g == Gcd(Abs(num), Abs(den))
        s == IF den < 0 THEN -1 ELSE 1
    IN  [n |-> (s * num) \div g, d |-> (s * den) \div g]

RInt(k) == [n |-> k, d |-> 1]

\* sums over the least common denominator, products after cancelling
\* across, so that intermediate values stay small
RAddOver(x, y, g) ==
    Rat(x.n * (y.d \div g) + y.n * (x.d \div g), (x.d \div g) * y.d)
RAdd(x, y) == RAddOver(x, y, Gcd(x.d, y.d))
RNeg(x) == [n |-> -x.n, d |-> x.d]
RSub(x, y) == RAdd(x, RNeg(y))
RMulOver(x, y, g1, g2) ==
    Rat((x.n \div g1) * (y.n \div g2), (x.d \div g2) * (y.d \div g1))
RMul(x, y) ==
    IF x.n = 0 \/ y.n = 0 THEN [n |-> 0, d |-> 1]
    ELSE RMulOver(x, y, Gcd(Abs(x.n), y.d), Gcd(Abs(y.n), x.d))
RInv(y) == IF y.n < 0 THEN [n |-> -y.d, d |-> -y.n] ELSE [n |-> y.d, d |-> y.n]
RDiv(x, y) == RMul(x, RInv(y))
RLt(x, y) == x.n * y.d < y.n * x.d
RLe(x, y) == x.n * y.d <= y.n * x.d
RAbs(x) == [n |-> Abs(x.n), d |-> x.d]
RMin(x, y) == IF RLe(x, y) THEN x ELSE y
RMax(x, y) == IF RLe(y, x) THEN x ELSE y

RECURSIVE RSum(_)
RSum(s) == IF s = <<>> THEN RInt(0) ELSE RAdd(Head(s), RSum(Tail(s)))

(***************************************************************************)
(* Strings are sequences of one-character strings.                         *)
(***************************************************************************)
Upper == <<"A","B","C","D","E","F","G","H","I","J","K","L","M",
           "N","O","P","Q","R","S","T","U","V","W","X","Y","Z">>
Lower == <<"a","b","c","d","e","f","g","h","i","j","k","l","m",
           "n","o","p","q","r","s","t","u","v","w","x","y","z">>

\* str.lower() on one character
LowerChar(c) ==
    IF \E i \in 1..Len(Upper) : Upper[i] = c
    THEN Lower[CHOOSE i \in 1..Len(Upper) : Upper[i] = c]
    ELSE c

\* the characters str.strip() and the regex class \s treat as whitespace
Whitespace == {" ", "\t", "\n"}

\* the character class [.\-–—/'] of normalize_team_name ("--" and "---"
\* stand for the en dash and the em dash)
Punctuation == {".", "-", "--", "---", "/", "'"}

\* unicodedata.normalize("NFD", c) with the combining marks (category Mn)
\* dropped; "e'" and "u:" stand for e-acute and u-diaeresis
StripAccentChar(c) ==
    CASE c = "e'" -> "e"
      [] c = "u:" -> "u"
      [] OTHER -> c

MapSeq(s, Op(_)) == [i \in 1..Len(s) |-> Op(s[i])]

RECURSIVE LStrip(_)
LStrip(s) == IF s # <<>> /\ Head(s) \in Whitespace THEN LStrip(Tail(s)) ELSE s

RECURSIVE RStrip(_)
RStrip(s) ==
    IF s # <<>> /\ s[Len(s)] \in Whitespace
    THEN RStrip(SubSeq(s, 1, Len(s) - 1))
    ELSE s

Strip(s) == RStrip(LStrip(s))

\* re.sub(r"\s+", " ", s)
RECURSIVE CollapseWhitespace(_)
CollapseWhitespace(s) ==
    IF s = <<>> THEN <<>>
    ELSE IF Head(s) \in Whitespace
         THEN <<" ">> \o CollapseWhitespace(LStrip(s))
         ELSE <<Head(s)>> \o CollapseWhitespace(Tail(s))


(***************************************************************************)
(* matching/team_normalizer.py                                             *)
(***************************************************************************)
\* the alias table, restricted to the clubs the model's fixtures use
TEAM_ALIASES ==
    {<<<<"a","j","a","x">>,
       <<"a","j","a","x">>>>,
     <<<<"a","f","c"," ","a","j","a","x">>,
       <<"a","j","a","x">>>>,
     <<<<"a","j","a","x"," ","a","m","s","t","e","r","d","a","m">>,
       <<"a","j","a","x">>>>,
     <<<<"p","s","v">>,
       <<"p","s","v">>>>,
     <<<<"p","s","v"," ","e","i","n","d","h","o","v","e","n">>,
       <<"p","s","v">>>>,
     <<<<"a","z">>,
       <<"a","z">>>>,
     <<<<"a","z"," ","a","l","k","m","a","a","r">>,
       <<"a","z">>>>,
     <<<<"m","a","n","c","h","e","s","t","e","r"," ","u","n","i","t","e","d">>,
       <<"m","a","n","c","h","e","s","t","e","r"," ","u","n","i","t","e","d">>>>,
     <<<<"m","a","n"," ","u","n","i","t","e","d">>,
       <<"m","a","n","c","h","e","s","t","e","r"," ","u","n","i","t","e","d">>>>,
     <<<<"m","a","n"," ","u","t","d">>,
       <<"m","a","n","c","h","e","s","t","e","r"," ","u","n","i","t","e","d">>>>}

\* the canonical ids the table holds for s: none or one
AliasHits(s) == {p[2] : p \in {q \in TEAM_ALIASES : q[1] = s}}

\* the alternatives of the prefix pattern ^(fc|sc|...)\s+
PrefixTokens ==
    {<<"f","c">>, <<"s","c">>, <<"b","v">>, <<"s","v">>, <<"v","v">>,
     <<"a","f","c">>, <<"r","k">>, <<"p","k">>, <<"c","f">>, <<"u","s">>,
     <<"a","c">>, <<"a","s">>, <<"s","s","c">>, <<"r","c">>, <<"o","g">>,
     <<"c","a">>, <<"u","d">>, <<"r","c","d">>}

\* the alternatives of the suffix pattern \s+(fc|united|...)$
SuffixTokens ==
    {<<"f","c">>, <<"u","n","i","t","e","d">>, <<"c","i","t","y">>,
     <<"t","o","w","n">>, <<"r","o","v","e","r","s">>,
     <<"w","a","n","d","e","r","e","r","s">>,
     <<"a","t","h","l","e","t","i","c">>, <<"h","o","t","s","p","u","r">>,
     <<"a","l","b","i","o","n">>, <<"c","a","l","c","i","o">>,
     <<"a","m","s","t","e","r","d","a","m">>,
     <<"r","o","t","t","e","r","d","a","m">>, <<"n","l">>}

SpacePositions(s) == {i \in 1..Len(s) : s[i] = " "}
MinOf(S) == CHOOSE x \in S : \A y \in S : x <= y
MaxOf(S) == CHOOSE x \in S : \A y \in S : x >= y

\* re.sub(r'^(fc|...)\s+', '', s) on a string whose whitespace is collapsed
WithoutPrefix(s) ==
    IF SpacePositions(s) = {} THEN s
    ELSE LET i == MinOf(SpacePositions(s))
         IN  IF SubSeq(s, 1, i - 1) \in PrefixTokens
             THEN SubSeq(s, i + 1, Len(s))
             ELSE s

\* mutant: no suffix is removed
WithoutSuffix_Kept(s) == s

\* re.sub(r'\s+(fc|...)$', '', s) on a string whose whitespace is collapsed
WithoutSuffix(s) ==
    IF SpacePositions(s) = {} THEN s
    ELSE LET i == MaxOf(SpacePositions(s))
         IN  IF SubSeq(s, i + 1, Len(s)) \in SuffixTokens
             THEN SubSeq(s, 1, i - 1)
             ELSE s

PunctToSpace(c) == IF c \in Punctuation THEN " " ELSE c

BasicNormalize(name) ==
    LET lowered == Strip(MapSeq(name, LowerChar))
        plain   == MapSeq(lowered, StripAccentChar)
        spaced  == MapSeq(plain, PunctToSpace)
    IN  Strip(CollapseWhitespace(spaced))

\* lines 171-185: the first lookup that hits, else the normalized string;
\* hits holds the result of the lookups in the order the code tries them
FirstHit(hits, normalized) ==
    IF \A i \in 1..Len(hits) : hits[i] = {} THEN normalized
    ELSE LET first == MinOf({i \in 1..Len(hits) : hits[i] # {}})
         IN  CHOOSE c \in hits[first] : TRUE

Lookups(normalized) ==
    MapSeq(<<normalized, WithoutPrefix(normalized), WithoutSuffix(normalized)>>,
           AliasHits)

normalize_team_name(name) ==
    IF name = <<>> THEN <<>>
    ELSE FirstHit(Lookups(BasicNormalize(name)), BasicNormalize(name))

(***************************************************************************)
(* difflib.SequenceMatcher(None, a, b).ratio(): Ratcliff/Obershelp.  The   *)
(* longest matching block is the longest common substring, earliest in a   *)
(* and then earliest in b; the pieces left and right of it are matched     *)
(* recursively.  ratio = 2*M/T.                                            *)
(***************************************************************************)
Blocks(a, b) ==
    {blk \in (1..Len(a)) \X (1..Len(b)) \X (1..Len(a)) :
        /\ blk[1] + blk[3] - 1 <= Len(a)
        /\ blk[2] + blk[3] - 1 <= Len(b)
        /\ SubSeq(a, blk[1], blk[1] + blk[3] - 1)
             = SubSeq(b, blk[2], blk[2] + blk[3] - 1)}

BlockBefore(x, y) ==
    \/ x[3] > y[3]
    \/ x[3] = y[3] /\ x[1] < y[1]
    \/ x[3] = y[3] /\ x[1] = y[1] /\ x[2] <= y[2]

find_longest_match(blocks) ==
    CHOOSE x \in blocks : \A y \in blocks : BlockBefore(x, y)

RECURSIVE MatchingChars(_, _)
RECURSIVE MatchingAround(_, _, _)
RECURSIVE MatchingIn(_, _, _)

\* the block m and, recursively, the pieces to its left and to its right
MatchingAround(a, b, m) ==
    m[3]
    + MatchingChars(SubSeq(a, 1, m[1] - 1), SubSeq(b, 1, m[2] - 1))
    + MatchingChars(SubSeq(a, m[1] + m[3], Len(a)),
                    SubSeq(b, m[2] + m[3], Len(b)))

MatchingIn(a, b, blocks) ==
    IF blocks = {} THEN 0 ELSE MatchingAround(a, b, find_longest_match(blocks))

\* the total size of the matching blocks
MatchingChars(a, b) == MatchingIn(a, b, Blocks(a, b))

team_similarity(name1, name2) ==
    IF Len(name1) + Len(name2) = 0 THEN RInt(1)
    ELSE Rat(2 * MatchingChars(name1, name2), Len(name1) + Len(name2))

\* team names as the providers spell them
Ajax == <<"A","j","a","x">>
AfcAjax == <<"A","F","C"," ","A","j","a","x">>
Ajaxx == <<"A","j","a","x","x">>
Az == <<"A","Z">>
Psv == <<"P","S","V">>

(***************************************************************************)
(* utils/datetime_utils.py.  A kickoff string is modelled by its clock     *)
(* fields <<hour, minute, second>> on one common date; a string that       *)
(* datetime.fromisoformat rejects is one whose fields are missing or out   *)
(* of range.                                                               *)
(***************************************************************************)
\* whether parse_datetime returns (TRUE) or raises ValueError (FALSE)
Parses(dt_str) ==
    /\ Len(dt_str) = 3
    /\ dt_str[1] \in 0..23
    /\ dt_str[2] \in 0..59
    /\ dt_str[3] \in 0..59

\* the parsed datetime, in seconds
parse_datetime(dt_str) == dt_str[1] * 3600 + dt_str[2] * 60 + dt_str[3]

\* mutant: the tolerance taken in hours instead of minutes
within_time_window_Hours(dt1, dt2, minutes) == Abs(dt1 - dt2) <= minutes * 3600

within_time_window(dt1, dt2, minutes) == Abs(dt1 - dt2) <= minutes * 60

(***************************************************************************)
(* matching/event_matcher.py: EventMatcher.match_events                    *)
(***************************************************************************)
\* the penalty added to the score of a fuzzy candidate
FuzzyPenalty == 1000

\* the names the model's events carry; normalisation and similarity are
\* tabulated once per name and per pair of normalised names (@@ makes TLC
\* evaluate the table instead of re-evaluating its body at each use)
TeamNames == {Ajax, AfcAjax, Ajaxx, Az, Psv}

NormalizedName == [nm \in TeamNames |-> normalize_team_name(nm)] @@ <<>>

CanonicalNames == {NormalizedName[nm] : nm \in TeamNames}

SimilarityOf ==
    [p \in CanonicalNames \X CanonicalNames |-> team_similarity(p[1], p[2])]
        @@ <<>>

\* lines 32-33, 40-41: <<normalized home, normalized away>> of an event
Names(e) == [i \in 1..2 |-> NormalizedName[IF i = 1 THEN e.home ELSE e.away]]

\* lines 44-49 on the normalized names ln, rn of a left and a right event
NameFacts(ln, rn) ==
    [exact_match |-> ln = rn,
     avg_similarity |->
        RDiv(RSum([i \in 1..2 |-> SimilarityOf[<<ln[i], rn[i]>>]]), RInt(2))]

\* line 51: the name test that lets a right event's kickoff be parsed
NamesQualify(f, minsim) == f.exact_match \/ RLe(minsim, f.avg_similarity)

\* what the inner loop computes for the right event at idx before it looks
\* at the kickoff time: whether line 37 lets it through, and the name test
Scan(l, rs, used, minsim) ==
    [idx \in 1..Len(rs) |->
        [scanned |-> idx \notin used /\ rs[idx].league = l.league,
         parses |-> Parses(rs[idx].kickoff_utc),
         facts |-> NameFacts(Names(l), Names(rs[idx]))]]

\* an exception inside the try block of one left event: its own kickoff
\* (line 31) or the kickoff of a scanned right event that passed the name
\* test (line 52) does not parse
MatchRaises(l, scan, minsim) ==
    \/ ~Parses(l.kickoff_utc)
    \/ \E idx \in DOMAIN scan :
          /\ scan[idx].scanned
          /\ NamesQualify(scan[idx].facts, minsim)
          /\ ~scan[idx].parses

\* line 54
time_diff(l, r) ==
    Abs(parse_datetime(r.kickoff_utc) - parse_datetime(l.kickoff_utc))

\* line 56
score(diff, is_exact) == IF is_exact THEN diff ELSE diff + FuzzyPenalty

\* lines 35-57: the candidates list, in right-list order
RECURSIVE CandidatesFrom(_, _, _, _, _, _)
CandidatesFrom(idx, l, rs, scan, tol, minsim) ==
    IF idx > Len(rs) THEN <<>>
    ELSE IF /\ scan[idx].scanned
            /\ NamesQualify(scan[idx].facts, minsim)
            /\ within_time_window(parse_datetime(l.kickoff_utc),
                                  parse_datetime(rs[idx].kickoff_utc), tol)
         THEN <<[idx |-> idx,
                 score |-> score(time_diff(l, rs[idx]),
                                 scan[idx].facts.exact_match),
                 is_exact |-> scan[idx].facts.exact_match]>>
              \o CandidatesFrom(idx + 1, l, rs, scan, tol, minsim)
         ELSE CandidatesFrom(idx + 1, l, rs, scan, tol, minsim)

\* line 60: min(candidates, key=score) returns the first minimal element
BestCandidate(cands) ==
    cands[MinOf({i \in 1..Len(cands) :
                    \A j \in 1..Len(cands) : cands[i].score <= cands[j].score})]

\* mutant: the chosen right position is not recorded as used
Emit_NotConsumed(st, li, best) ==
    [matches |-> Append(st.matches, <<li, best.idx>>),
     used_indices |-> st.used_indices,
     log |-> IF best.is_exact THEN st.log ELSE Append(st.log, <<"debug", li>>)]

\* lines 59-69: the best candidate is consumed and the pair appended
Emit(st, li, best) ==
    [matches |-> Append(st.matches, <<li, best.idx>>),
     used_indices |-> st.used_indices \cup {best.idx},
     log |-> IF best.is_exact THEN st.log ELSE Append(st.log, <<"debug", li>>)]

EmitBest(st, li, cands) ==
    IF cands = <<>> THEN st ELSE Emit(st, li, BestCandidate(cands))

\* mutant: an exception ends the batch, losing the pairs found so far
MatchScanned_Abort(st, li, l, rs, tol, minsim, scan) ==
    IF MatchRaises(l, scan, minsim)
    THEN [matches |-> <<>>, used_indices |-> {},
          log |-> Append(st.log, <<"warning", li>>)]
    ELSE EmitBest(st, li, CandidatesFrom(1, l, rs, scan, tol, minsim))

\* one iteration of the loop over left (lines 29-72) on the state
\* st = [matches, used_indices, log]; matches holds <<left position, right
\* position>> pairs
MatchScanned(st, li, l, rs, tol, minsim, scan) ==
    IF MatchRaises(l, scan, minsim)
    THEN [st EXCEPT !.log = Append(@, <<"warning", li>>)]
    ELSE EmitBest(st, li, CandidatesFrom(1, l, rs, scan, tol, minsim))

MatchLeftEvent(st, li, ls, rs, tol, minsim) ==
    MatchScanned(st, li, ls[li], rs, tol, minsim,
                 Scan(ls[li], rs, st.used_indices, minsim))

RECURSIVE MatchFrom(_, _, _, _, _, _)
MatchFrom(st, li, ls, rs, tol, minsim) ==
    IF li > Len(ls) THEN st
    ELSE MatchFrom(MatchLeftEvent(st, li, ls, rs, tol, minsim),
                   li + 1, ls, rs, tol, minsim)

MatchStart == [matches |-> <<>>, used_indices |-> {}, log |-> <<>>]

\* the whole call: the returned list of pairs
match_events(ls, rs, tol, minsim) ==
    MatchFrom(MatchStart, 1, ls, rs, tol, minsim).matches

(***************************************************************************)
(* Python dicts and the values of a market mapping.  A value is a number   *)
(* [n, d] with d > 0 or None.                                              *)
(***************************************************************************)
EmptyDict == [keys |-> <<>>, val |-> <<>>]

None == [n |-> 0, d |-> 0]
IsNone(v) == v.d = 0

\* a complex number, as ** yields for a negative base and a fractional
\* power; its value is not modelled
Complex == [n |-> 1, d |-> 0]

KeySet(d) == {d.keys[i] : i \in 1..Len(d.keys)}

\* the dict {keys[i]: vals[i]}
Dict(keys, vals) ==
    [keys |-> keys,
     val |-> [k \in {keys[i] : i \in 1..Len(keys)} |->
                 vals[CHOOSE i \in 1..Len(keys) : keys[i] = k]]]

(***************************************************************************)
(* analysis/value_analyzer.py: ValueAnalyzer.remove_vig_multiplicative     *)
(*                                                                         *)
(* The result is [kind, probs]: kind "probs" with the returned mapping,    *)
(* "None", "complex" for a returned mapping of complex numbers, or         *)
(* "TypeError" for the exception the except clause does not catch.         *)
(***************************************************************************)
AuxKeys == {"margin", "line"}

\* lines 21-25
OutcomeKeys(odds) == SelectSeq(odds.keys, LAMBDA k : k \notin AuxKeys)

\* line 27: the positions whose 1.0/odds[k] raises
Raising(odds, keys) ==
    {i \in 1..Len(keys) : IsNone(odds.val[keys[i]]) \/ odds.val[keys[i]].n = 0}

\* line 27: the comprehension stops at the first key that raises: None
\* gives TypeError, zero gives ZeroDivisionError
FirstRaise(odds, keys, raising) ==
    IF raising = {} THEN "ok"
    ELSE IF IsNone(odds.val[keys[MinOf(raising)]]) THEN "TypeError"
    ELSE "ZeroDivisionError"

\* line 27
ImpliedProbs(odds, keys) ==
    [i \in 1..Len(keys) |-> RDiv(RInt(1), odds.val[keys[i]])]

RECURSIVE IPow(_, _)
IPow(b, e) == IF e = 0 THEN 1 ELSE b * IPow(b, e - 1)

\* the exact k-th root of a natural number
IRoot(x, k) ==
    IF k = 1 THEN x
    ELSE CHOOSE r \in 0..x : (r <= 1 \/ r * r <= x) /\ IPow(r, k) = x

\* lines 35, 40: prob ** (1/exponent) with 1/exponent = n/(n-1), that is
\* prob times its (n-1)-th root; for n = 2 the power is 2.0 and prob may be
\* negative, for n >= 3 prob is positive
PowInvExponent(prob, n) ==
    RMul(prob, [n |-> IRoot(prob.n, n - 1), d |-> IRoot(prob.d, n - 1)])

\* lines 37-40.  Every adjusted value is divided by the same number
\* total ** (1/exponent); the model keeps the values in units of its
\* reciprocal, which line 44 divides out again
Adjusted(probs, n) == [i \in 1..Len(probs) |-> PowInvExponent(probs[i], n)]

\* mutant: the adjusted values are returned without normalising
Normalized_Skipped(adjusted, adj_total) == adjusted

\* lines 43-44
Normalized(adjusted, adj_total) ==
    [i \in 1..Len(adjusted) |-> RDiv(adjusted[i], adj_total)]

NormalizedSum(adjusted) == Normalized(adjusted, RSum(adjusted))

DevigResult(kind, probs) == [kind |-> kind, probs |-> probs]

\* mutant: a single outcome is treated like no outcome
SingleOutcome_None(keys) == DevigResult("None", EmptyDict)

\* line 33, n == 1
SingleOutcome(keys) == DevigResult("probs", Dict(keys, <<RInt(1)>>))

\* lines 35-44 for n >= 2.  A zero total makes the division of line 40
\* raise ZeroDivisionError; for n >= 3 a negative prob or total makes **
\* return a complex number, and the mapping returned holds complex values
PowerMethod(keys, probs, total, n) ==
    IF total.n = 0 THEN DevigResult("None", EmptyDict)
    ELSE IF n >= 3 /\ (total.n < 0 \/ \E i \in 1..n : probs[i].n < 0)
    THEN DevigResult("complex", Dict(keys, [i \in 1..n |-> Complex]))
    ELSE DevigResult("probs", Dict(keys, NormalizedSum(Adjusted(probs, n))))

\* lines 28-44 once line 27 has not raised
Devigged(keys, probs) ==
    IF Len(keys) = 0 THEN DevigResult("None", EmptyDict)
    ELSE IF Len(keys) = 1 THEN SingleOutcome(keys)
    ELSE PowerMethod(keys, probs, RSum(probs), Len(keys))

DevigKeys(odds, keys, raise) ==
    IF raise = "TypeError" THEN DevigResult("TypeError", EmptyDict)
    ELSE IF raise = "ZeroDivisionError" THEN DevigResult("None", EmptyDict)
    ELSE Devigged(keys, ImpliedProbs(odds, keys))

DevigOutcomes(odds, keys) ==
    DevigKeys(odds, keys, FirstRaise(odds, keys, Raising(odds, keys)))

remove_vig_multiplicative(odds) == DevigOutcomes(odds, OutcomeKeys(odds))

(***************************************************************************)
(* analysis/value_analyzer.py: calculate_edge, kelly_stake                 *)
(***************************************************************************)
MINIMUM_EDGE_THRESHOLD == Rat(25, 1000)
KELLY_FRACTION == Rat(1, 4)
MAX_STAKE_PERCENTAGE == Rat(5, 100)

\* mutant: the odds enter as their reciprocal
calculate_edge_Inverse(true_prob, offered_odds) ==
    RSub(RDiv(true_prob, offered_odds), RInt(1))

calculate_edge(true_prob, offered_odds) ==
    RSub(RMul(true_prob, offered_odds), RInt(1))

\* lines 69-73: the Kelly fraction (b*p - q) / b
\* mutant: the losing probability q is left out of the Kelly formula
KellyFormula_NoLoss(p, b) == RDiv(RMul(b, p), b)

KellyFormula(p, b) == RDiv(RSub(RMul(b, p), RSub(RInt(1), p)), b)

\* mutant: the stake is not capped at MAX_STAKE_PERCENTAGE of the bankroll
CappedStake_Uncapped(kelly, bankroll, kelly_fraction) ==
    RMul(RMax(RInt(0), RMul(kelly, kelly_fraction)), bankroll)

\* lines 76-79
CappedStake(kelly, bankroll, kelly_fraction) ==
    RMin(RMul(RMax(RInt(0), RMul(kelly, kelly_fraction)), bankroll),
         RMul(bankroll, MAX_STAKE_PERCENTAGE))

kelly_stake(edge, odds, bankroll, kelly_fraction) ==
    IF RLe(edge, RInt(0)) \/ RLe(odds, RInt(1)) THEN RInt(0)
    ELSE CappedStake(KellyFormula(RDiv(RAdd(RInt(1), edge), odds),
                                  RSub(odds, RInt(1))),
                     bankroll, kelly_fraction)

(***************************************************************************)
(* analysis/value_analyzer.py: ValueAnalyzer.check_home_away_swap          *)
(***************************************************************************)
\* the divergence a swapped orientation must undercut by (line 111)
SwapMargin == Rat(5, 100)

\* dict.get(k) and dict.get(k, 0)
Get(d, k) == IF k \in KeySet(d) THEN d.val[k] ELSE None
GetOrZero(d, k) == IF k \in KeySet(d) THEN d.val[k] ELSE RInt(0)

\* "not probs": None or an empty mapping
Falsy(r) == r.kind = "None" \/ (r.kind = "probs" /\ r.probs.keys = <<>>)

\* lines 95-96, 108-109
Divergence(probs, anchor_probs) ==
    RSum([i \in 1..Len(anchor_probs.keys) |->
            RAbs(RSub(GetOrZero(probs, anchor_probs.keys[i]),
                      anchor_probs.val[anchor_probs.keys[i]]))])

\* lines 100-104
SwappedOdds(soft_odds) ==
    Dict(<<"home", "draw", "away">>,
         <<Get(soft_odds, "away"), Get(soft_odds, "draw"),
           Get(soft_odds, "home")>>)

\* lines 105-115.  Divergences of complex-valued mappings are not
\* modelled: with a complex mapping in play the result is reported as
\* complex-valued over the keys of the normal orientation
SwapChoice(normal, anchor, swapped) ==
    IF swapped.kind = "TypeError" THEN DevigResult("TypeError", EmptyDict)
    ELSE IF "complex" \in {normal.kind, anchor.kind, swapped.kind}
    THEN DevigResult("complex", normal.probs)
    ELSE IF /\ ~Falsy(swapped)
            /\ RLt(RAdd(Divergence(swapped.probs, anchor.probs), SwapMargin),
                   Divergence(normal.probs, anchor.probs))
    THEN swapped
    ELSE normal

\* lines 91-115 on the two devigged mappings
SwapCheck(soft_odds, normal, anchor) ==
    IF "TypeError" \in {normal.kind, anchor.kind}
    THEN DevigResult("TypeError", EmptyDict)
    ELSE IF Falsy(normal) \/ Falsy(anchor)
    THEN (IF normal.kind = "None" THEN DevigResult("probs", EmptyDict)
          ELSE normal)
    ELSE IF {"home", "away"} \subseteq KeySet(soft_odds)
    THEN SwapChoice(normal, anchor,
                    remove_vig_multiplicative(SwappedOdds(soft_odds)))
    ELSE IF "complex" \in {normal.kind, anchor.kind}
    THEN DevigResult("complex", normal.probs)
    ELSE normal

check_home_away_swap(soft_odds, anchor_odds) ==
    SwapCheck(soft_odds, remove_vig_multiplicative(soft_odds),
              remove_vig_multiplicative(anchor_odds))

(***************************************************************************)
(* analysis/value_analyzer.py: ValueAnalyzer.generate_value_bets           *)
(***************************************************************************)
\* line 147
MarketTypes == <<"1x2", "ou_2_5", "btts">>

\* mutant: the expected value is taken of the edge in percent
ValueBet_EvOfPercentage(ctx, outcome, soft_prob, true_prob, edge, stake) ==
    [league |-> ctx.soft_event.league,
     kickoff |-> ctx.soft_event.kickoff_utc,
     home |-> ctx.soft_event.home,
     away |-> ctx.soft_event.away,
     bookmaker |-> ctx.book_name,
     market |-> ctx.market_type,
     outcome |-> outcome,
     soft_odds |-> ctx.soft_market.val[outcome],
     anchor_odds |-> ctx.anchor_market.val[outcome],
     soft_prob |-> soft_prob,
     anchor_prob |-> true_prob,
     edge_percentage |-> RMul(edge, RInt(100)),
     recommended_stake |-> stake,
     expected_value |-> RMul(stake, RMul(edge, RInt(100)))]

\* lines 180-195; ctx holds the soft event, the book name and the market
ValueBet(ctx, outcome, soft_prob, true_prob, edge, stake) ==
    [league |-> ctx.soft_event.league,
     kickoff |-> ctx.soft_event.kickoff_utc,
     home |-> ctx.soft_event.home,
     away |-> ctx.soft_event.away,
     bookmaker |-> ctx.book_name,
     market |-> ctx.market_type,
     outcome |-> outcome,
     soft_odds |-> ctx.soft_market.val[outcome],
     anchor_odds |-> ctx.anchor_market.val[outcome],
     soft_prob |-> soft_prob,
     anchor_prob |-> true_prob,
     edge_percentage |-> RMul(edge, RInt(100)),
     recommended_stake |-> stake,
     expected_value |-> RMul(stake, edge)]

\* lines 177-197: the threshold filter, then the ValueBet; soft_probs[outcome]
\* raises KeyError when the swapped orientation lacks the outcome
EdgeEntry(ctx, outcome, soft_probs, true_prob, edge) ==
    IF ~RLe(ctx.min_edge, edge) THEN [kind |-> "below"]
    ELSE IF outcome \notin KeySet(soft_probs.probs) THEN [kind |-> "raise"]
    ELSE [kind |-> "bet",
          bet |-> ValueBet(ctx, outcome, soft_probs.probs.val[outcome],
                           true_prob, edge,
                           kelly_stake(edge, ctx.soft_market.val[outcome],
                                       ctx.bankroll, KELLY_FRACTION))]

\* lines 167-177 for one outcome of the anchor's mapping; a complex
\* true_prob makes the comparison of line 177 raise TypeError
OutcomeEntry(ctx, outcome, soft_probs, anchor_probs) ==
    IF outcome \notin KeySet(ctx.soft_market) THEN [kind |-> "skip"]
    ELSE IF anchor_probs.kind = "complex" THEN [kind |-> "raise"]
    ELSE EdgeEntry(ctx, outcome, soft_probs, anchor_probs.probs.val[outcome],
                   calculate_edge(anchor_probs.probs.val[outcome],
                                  ctx.soft_market.val[outcome]))

\* lines 166-211: the outcomes in the order of the anchor's mapping
MarketEntries(ctx, soft_probs, anchor_probs) ==
    [i \in 1..Len(anchor_probs.probs.keys) |->
        OutcomeEntry(ctx, anchor_probs.probs.keys[i], soft_probs, anchor_probs)]

MarketResult(status, bets) == [status |-> status, bets |-> bets]

Collect(entries) ==
    IF \E i \in 1..Len(entries) : entries[i].kind = "raise"
    THEN MarketResult("raise", <<>>)
    ELSE MarketResult("bets",
            LET hits == SelectSeq(entries, LAMBDA e : e.kind = "bet")
            IN  [i \in 1..Len(hits) |-> hits[i].bet])

\* lines 162-211
ProcessProbs(ctx, soft_probs, anchor_probs) ==
    IF "TypeError" \in {soft_probs.kind, anchor_probs.kind}
    THEN MarketResult("raise", <<>>)
    ELSE IF Falsy(soft_probs) \/ Falsy(anchor_probs)
    THEN MarketResult("noprobs", <<>>)
    ELSE Collect(MarketEntries(ctx, soft_probs, anchor_probs))

\* lines 152-160
SoftProbs(ctx) ==
    IF ctx.market_type = "1x2"
    THEN check_home_away_swap(ctx.soft_market, ctx.anchor_market)
    ELSE remove_vig_multiplicative(ctx.soft_market)

MarketContext(soft_event, anchor_event, book_name, market_type, min_edge, bankroll) ==
    [soft_event |-> soft_event, book_name |-> book_name,
     market_type |-> market_type,
     soft_market |-> soft_event.markets.val[market_type],
     anchor_market |-> anchor_event.markets.val[market_type],
     min_edge |-> min_edge, bankroll |-> bankroll]

ProcessContext(ctx) ==
    ProcessProbs(ctx, SoftProbs(ctx),
                 remove_vig_multiplicative(ctx.anchor_market))

\* lines 148-211: one market type of one matched pair
ProcessMarket(soft_event, anchor_event, book_name, market_type, min_edge, bankroll) ==
    IF \/ market_type \notin KeySet(soft_event.markets)
       \/ market_type \notin KeySet(anchor_event.markets)
    THEN MarketResult("absent", <<>>)
    ELSE ProcessContext(MarketContext(soft_event, anchor_event, book_name,
                                      market_type, min_edge, bankroll))

\* mutant: a bet goes in front of the bets of equal edge
SortedInsert_Unstable(sorted, bet) ==
    LET n == Cardinality({i \in 1..Len(sorted) :
                 RLt(bet.edge_percentage, sorted[i].edge_percentage)})
    IN  SubSeq(sorted, 1, n) \o <<bet>> \o SubSeq(sorted, n + 1, Len(sorted))

\* line 214: list.sort is stable, so with reverse=True bets of equal edge
\* keep their order of production
SortedInsert(sorted, bet) ==
    LET n == Cardinality({i \in 1..Len(sorted) :
                 RLe(bet.edge_percentage, sorted[i].edge_percentage)})
    IN  SubSeq(sorted, 1, n) \o <<bet>> \o SubSeq(sorted, n + 1, Len(sorted))

RECURSIVE SortByEdge(_)
SortByEdge(bets) ==
    IF bets = <<>> THEN <<>>
    ELSE SortedInsert(SortByEdge(SubSeq(bets, 1, Len(bets) - 1)),
                      bets[Len(bets)])

(***************************************************************************)
(* Inputs of the matcher: UnifiedEvent records (core/models.py).           *)
(***************************************************************************)

Event(league, kickoff, home, away, markets) ==
    [league |-> league, kickoff_utc |-> kickoff, home |-> home, away |-> away,
     markets |-> markets]

\* a seconds field out of range: fromisoformat raises ValueError
BadKickoff == <<12, 0, 60>>

LeftPool ==
    {Event("eredivisie", <<12, 0, 0>>, Ajax, Psv, EmptyDict),
     Event("eredivisie", <<12, 12, 0>>, Ajax, Psv, EmptyDict),
     Event("eredivisie", <<12, 0, 0>>, Ajaxx, Psv, EmptyDict),
     Event("eredivisie", BadKickoff, Ajax, Psv, EmptyDict)}

RightPool ==
    {Event("eredivisie", <<12, 0, 0>>, AfcAjax, Psv, EmptyDict),
     Event("eredivisie", <<12, 12, 0>>, AfcAjax, Psv, EmptyDict),
     Event("eredivisie", <<12, 20, 0>>, AfcAjax, Psv, EmptyDict),
     Event("eredivisie", <<12, 0, 0>>, Ajaxx, Psv, EmptyDict),
     Event("eredivisie", <<12, 0, 0>>, Az, Psv, EmptyDict),
     Event("keuken_kampioen", <<12, 0, 0>>, AfcAjax, Psv, EmptyDict),
     Event("eredivisie", BadKickoff, AfcAjax, Psv, EmptyDict)}

SeqsUpTo(S, n) == UNION {[1..k -> S] : k \in 0..n}

\* time_tolerance_minutes: the default and a wider window
Tolerances == {12, 20}

\* min_similarity: the default 0.85 and a stricter 0.95
MinSimilarities == {Rat(85, 100), Rat(95, 100)}

\* the default time_tolerance of generate_value_bets and the default
\* min_similarity of match_events
DefaultTimeTolerance == 12
TEAM_SIMILARITY_THRESHOLD == Rat(85, 100)

(***************************************************************************)
(* Inputs of margin removal: n outcomes whose odds are zero, negative,     *)
(* None, or the (n-1)-th power of a rational greater than 1 (so that the   *)
(* power method stays rational), with or without the auxiliary keys.       *)
(***************************************************************************)
MaxOutcomes == 3

OutcomeNames == <<"home", "away", "draw", "void", "other">>

OddsRoots == {Rat(5, 4), Rat(3, 2), RInt(2), RInt(3), RInt(5)}

RECURSIVE RPow(_, _)
RPow(x, e) == IF e = 0 THEN RInt(1) ELSE RMul(x, RPow(x, e - 1))

OddsValues(n) ==
    {RPow(r, IF n >= 3 THEN n - 1 ELSE 1) : r \in OddsRoots}
        \cup {RInt(0), RInt(-2), None}

AuxItems ==
    {<<>>, <<<<"margin", Rat(3, 100)>>>>, <<<<"line", Rat(5, 2)>>>>,
     <<<<"line", Rat(5, 2)>>, <<"margin", None>>>>}

\* the mapping of n outcomes with the odds vals, followed by the auxiliary
\* items aux
OddsMapping(n, vals, aux) ==
    Dict(SubSeq(OutcomeNames, 1, n) \o [i \in 1..Len(aux) |-> aux[i][1]],
         vals \o [i \in 1..Len(aux) |-> aux[i][2]])

OddsMappings ==
    UNION {{OddsMapping(n, vals, aux) :
                vals \in [1..n -> OddsValues(n)], aux \in AuxItems} :
           n \in 0..MaxOutcomes}

(***************************************************************************)
(* Inputs of the pipeline: an anchor list and soft books over two          *)
(* fixtures, with complete, partial, zero-odds and swapped markets.        *)
(***************************************************************************)
MaxBooks == 2

BookNames == <<"toto", "unibet", "bet365", "betcity">>

Anchor1x2 ==
    Dict(<<"home", "draw", "away", "margin">>,
         <<Rat(16, 9), RInt(4), RInt(4), Rat(1, 16)>>)
AnchorOu ==
    Dict(<<"over", "under", "line">>, <<RInt(2), RInt(2), Rat(5, 2)>>)
AnchorBtts == Dict(<<"yes", "no">>, <<RInt(2), RInt(2)>>)

Soft1x2Value ==
    Dict(<<"home", "draw", "away">>, <<Rat(25, 16), Rat(25, 9), Rat(25, 4)>>)
Soft1x2Swapped ==
    Dict(<<"home", "draw", "away">>, <<RInt(4), RInt(4), Rat(16, 9)>>)
\* the anchor's odds but for a longer price on home
Soft1x2Longer ==
    Dict(<<"home", "draw", "away">>, <<Rat(9, 4), RInt(4), RInt(4)>>)
Soft1x2NoDraw == Dict(<<"home", "away">>, <<Rat(25, 16), Rat(25, 4)>>)
Soft1x2Zero ==
    Dict(<<"home", "draw", "away">>, <<RInt(0), RInt(4), RInt(4)>>)
SoftOu ==
    Dict(<<"over", "under", "line">>, <<Rat(11, 5), Rat(17, 10), Rat(5, 2)>>)
SoftBtts == Dict(<<"yes", "no">>, <<Rat(9, 4), Rat(9, 5)>>)
SoftBttsYesOnly == Dict(<<"yes">>, <<Rat(9, 4)>>)
\* markets whose outcomes all have the same edge against the anchor, their
\* keys in another order than the anchor's
SoftOuEven ==
    Dict(<<"line", "under", "over">>, <<Rat(5, 2), Rat(9, 4), Rat(9, 4)>>)
SoftBttsEven == Dict(<<"no", "yes">>, <<Rat(9, 4), Rat(9, 4)>>)

AnchorAjax ==
    Event("eredivisie", <<12, 0, 0>>, AfcAjax, Psv,
          Dict(<<"1x2", "ou_2_5", "btts">>,
               <<Anchor1x2, AnchorOu, AnchorBtts>>))
AnchorAz ==
    Event("eredivisie", <<12, 0, 0>>, Az, Psv,
          Dict(<<"1x2">>, <<Anchor1x2>>))

SoftAjaxValue ==
    Event("eredivisie", <<12, 0, 0>>, Ajax, Psv,
          Dict(<<"1x2", "ou_2_5", "btts">>,
               <<Soft1x2Value, SoftOu, SoftBtts>>))
SoftAjaxNoDraw ==
    Event("eredivisie", <<12, 0, 0>>, Ajax, Psv,
          Dict(<<"1x2", "btts">>, <<Soft1x2NoDraw, SoftBtts>>))
SoftAjaxZero ==
    Event("eredivisie", <<12, 12, 0>>, Ajax, Psv,
          Dict(<<"1x2", "btts">>, <<Soft1x2Zero, SoftBttsYesOnly>>))
SoftAjaxLonger ==
    Event("eredivisie", <<12, 0, 0>>, Ajax, Psv,
          Dict(<<"1x2">>, <<Soft1x2Longer>>))
\* the anchor's own odds for the two markets
SoftAjaxSame ==
    Event("eredivisie", <<12, 0, 0>>, Ajax, Psv,
          Dict(<<"1x2", "btts">>,
               <<Dict(<<"home", "draw", "away">>,
                      <<Rat(16, 9), RInt(4), RInt(4)>>),
                 AnchorBtts>>))
SoftAjaxEven ==
    Event("eredivisie", <<12, 0, 0>>, Ajax, Psv,
          Dict(<<"btts", "ou_2_5">>, <<SoftBttsEven, SoftOuEven>>))
SoftAzSwapped ==
    Event("eredivisie", <<12, 0, 0>>, Az, Psv,
          Dict(<<"1x2">>, <<Soft1x2Swapped>>))
SoftAzValue ==
    Event("eredivisie", <<12, 0, 0>>, Az, Psv,
          Dict(<<"1x2", "btts">>, <<Soft1x2Value, SoftBtts>>))

AnchorPool == {<<AnchorAjax, AnchorAz>>, <<AnchorAz, AnchorAjax>>, <<AnchorAjax>>}

BookPool ==
    {<<SoftAjaxValue, SoftAzSwapped>>, <<SoftAjaxNoDraw, SoftAzValue>>,
     <<SoftAzValue, SoftAjaxZero>>, <<SoftAjaxValue, SoftAzValue>>,
     <<SoftAjaxEven>>, <<SoftAjaxLonger>>,
     <<SoftAjaxSame, SoftAjaxLonger>>, <<>>}

\* the lists a book after the second one is drawn from
LaterBookPool == {<<SoftAjaxValue, SoftAzValue>>, <<>>}

\* soft_books: up to n books in insertion order, named by position
SoftBooks(n) ==
    UNION {{[i \in 1..k |-> [book_name |-> BookNames[i],
                             book_events |-> lists[i]]] :
                lists \in {f \in [1..k -> BookPool] :
                             \A i \in 3..k : f[i] \in LaterBookPool}} :
           k \in 0..n}

\* min_edge: the default and one an edge of the inputs equals exactly
MinEdges == {MINIMUM_EDGE_THRESHOLD, Rat(1, 8)}

Bankrolls == {RInt(1000), RInt(0), RInt(-100)}

(***************************************************************************)
(* State: one call of match_events, one call of                            *)
(* remove_vig_multiplicative, one call of generate_value_bets, one         *)
(* HttpClient with its callers, one run of main.                           *)
(***************************************************************************)
VARIABLES left, right, time_tolerance_minutes, min_similarity,
          pos, used_indices, matches, log, pc,
          odds, devig_result, dpc,
          anchor_events, soft_books, min_edge, bankroll,
          book, pairs, pair, market, value_bets, gpc,
          args, ret, cpc,
          concurrency, retries, semaphore, waiters,
          hpc, attempt, resp_status, delay, hret,
          mpc, output

matchVars == <<left, right, time_tolerance_minutes, min_similarity,
               pos, used_indices, matches, log, pc>>

devigVars == <<odds, devig_result, dpc>>

gvbVars == <<anchor_events, soft_books, min_edge, bankroll,
             book, pairs, pair, market, value_bets, gpc>>

\* one call of a pure function: its arguments by name, what it returns
callVars == <<args, ret, cpc>>

\* one HttpClient: its configuration, its semaphore, and per caller of
\* get/post_json the position in _request_with_retry, the loop variable,
\* the status of the response of the current attempt, the seconds slept
\* before the current attempt and the value returned
httpVars == <<concurrency, retries, semaphore, waiters,
              hpc, attempt, resp_status, delay, hret>>

\* one run of main: its position after the data collection, and the files
\* written to the output directory
mainVars == <<mpc, output>>

vars == <<matchVars, devigVars, gvbVars, callVars, httpVars, mainVars>>

MatchIdle ==
    /\ left = <<>> /\ right = <<>>
    /\ time_tolerance_minutes = DefaultTimeTolerance
    /\ min_similarity = TEAM_SIMILARITY_THRESHOLD
    /\ pos = 1 /\ used_indices = {} /\ matches = <<>> /\ log = <<>>
    /\ pc = "idle"

DevigIdle ==
    /\ odds = EmptyDict
    /\ devig_result = DevigResult("None", EmptyDict)
    /\ dpc = "idle"

GvbIdle ==
    /\ anchor_events = <<>> /\ soft_books = <<>>
    /\ min_edge = MINIMUM_EDGE_THRESHOLD /\ bankroll = RInt(1000)
    /\ book = 1 /\ pairs = <<>> /\ pair = 1 /\ market = 1
    /\ value_bets = <<>> /\ gpc = "idle"

CallIdle == args = <<>> /\ ret = <<>> /\ cpc = "idle"

HttpIdle ==
    /\ concurrency = 0 /\ retries = 0 /\ semaphore = 0 /\ waiters = <<>>
    /\ hpc = <<>> /\ attempt = <<>> /\ resp_status = <<>> /\ delay = <<>>
    /\ hret = <<>>

MainIdle == mpc = "idle" /\ output = {}

(***************************************************************************)
(* match_events, one iteration of the loop over left per step.             *)
(***************************************************************************)
MatchState == [matches |-> matches, used_indices |-> used_indices, log |-> log]

MatchInit ==
    /\ left \in SeqsUpTo(LeftPool, MaxLeft)
    /\ right \in SeqsUpTo(RightPool, MaxRight)
    /\ time_tolerance_minutes \in Tolerances
    /\ min_similarity \in MinSimilarities
    /\ pos = 1
    /\ used_indices = {}
    /\ matches = <<>>
    /\ log = <<>>
    /\ pc = "loop"
    /\ DevigIdle
    /\ GvbIdle
    /\ CallIdle
    /\ HttpIdle
    /\ MainIdle

\* what one iteration did, read off its effect: a warning is logged exactly
\* when the try block raised, a pair is appended exactly when one was emitted
StepKind(st, new) ==
    IF Len(new.matches) > Len(st.matches) THEN "pair"
    ELSE IF Len(new.log) > Len(st.log) THEN "error"
    ELSE "none"

MatchCommit(st, new, kind) ==
    /\ StepKind(st, new) = kind
    /\ matches' = new.matches
    /\ used_indices' = new.used_indices
    /\ log' = new.log
    /\ pos' = pos + 1
    /\ UNCHANGED <<left, right, time_tolerance_minutes, min_similarity, pc>>
    /\ UNCHANGED <<devigVars, gvbVars, callVars, httpVars, mainVars>>

MatchStep(kind) ==
    MatchCommit(MatchState,
                MatchLeftEvent(MatchState, pos, left, right,
                               time_tolerance_minutes, min_similarity),
                kind)

\* the try block raised: the left event is skipped with a warning
MatchError ==
    /\ pc = "loop" /\ pos <= Len(left)
    /\ MatchStep("error")

\* no candidate qualified: the left event is dropped
MatchNone ==
    /\ pc = "loop" /\ pos <= Len(left)
    /\ MatchStep("none")

\* the minimum-score candidate is consumed and the pair emitted
MatchPair ==
    /\ pc = "loop" /\ pos <= Len(left)
    /\ MatchStep("pair")

\* the loop is exhausted: matches is returned
MatchReturn ==
    /\ pc = "loop" /\ pos > Len(left)
    /\ pc' = "done"
    /\ log' = Append(log, <<"info", Len(matches)>>)
    /\ UNCHANGED <<left, right, time_tolerance_minutes, min_similarity,
                   pos, used_indices, matches>>
    /\ UNCHANGED <<devigVars, gvbVars, callVars, httpVars, mainVars>>

MatchNext == MatchError \/ MatchNone \/ MatchPair \/ MatchReturn

SpecMatch == MatchInit /\ [][MatchNext]_vars

(***************************************************************************)
(* remove_vig_multiplicative, one call per behaviour.                      *)
(***************************************************************************)
DevigInit ==
    /\ odds \in OddsMappings
    /\ devig_result = DevigResult("None", EmptyDict)
    /\ dpc = "call"
    /\ MatchIdle
    /\ GvbIdle
    /\ CallIdle
    /\ HttpIdle
    /\ MainIdle

DevigCommit(r, kind) ==
    /\ r.kind = kind
    /\ devig_result' = r
    /\ dpc' = IF kind = "TypeError" THEN "raised" ELSE "returned"
    /\ UNCHANGED <<odds, matchVars, gvbVars, callVars, httpVars, mainVars>>

DevigStep(kind) == DevigCommit(remove_vig_multiplicative(odds), kind)

\* a probability mapping is returned
DevigProbs ==
    /\ dpc = "call"
    /\ DevigStep("probs")

\* None is returned
DevigNone ==
    /\ dpc = "call"
    /\ DevigStep("None")

\* 1.0 / None raises TypeError, which the except clause lets through
DevigTypeError ==
    /\ dpc = "call"
    /\ DevigStep("TypeError")

\* a mapping of complex numbers is returned
DevigComplex ==
    /\ dpc = "call"
    /\ DevigStep("complex")

DevigNext == DevigProbs \/ DevigNone \/ DevigTypeError \/ DevigComplex

SpecDevig == DevigInit /\ [][DevigNext]_vars

(***************************************************************************)
(* generate_value_bets: one book matched, or one market type of one        *)
(* matched pair processed, per step.                                       *)
(***************************************************************************)
GvbInit ==
    /\ anchor_events \in AnchorPool
    /\ soft_books \in SoftBooks(MaxBooks)
    /\ min_edge \in MinEdges
    /\ bankroll \in Bankrolls
    /\ book = 1 /\ pairs = <<>> /\ pair = 1 /\ market = 1
    /\ value_bets = <<>>
    /\ gpc = "books"
    /\ MatchIdle
    /\ DevigIdle
    /\ CallIdle
    /\ HttpIdle
    /\ MainIdle

\* line 142: the matched (soft_event, anchor_event) pairs of one book
MatchedPairs(book_events, m) ==
    [k \in 1..Len(m) |-> <<book_events[m[k][1]], anchor_events[m[k][2]]>>]

\* mutant: an anchor event paired by an earlier book is not paired again
BookPairs_SharedAnchors(book_events) ==
    LET consumed ==
            UNION {{p[2] : p \in
                      {match_events(soft_books[b].book_events, anchor_events,
                                    DefaultTimeTolerance,
                                    TEAM_SIMILARITY_THRESHOLD)[k] :
                         k \in 1..Len(match_events(
                                        soft_books[b].book_events,
                                        anchor_events, DefaultTimeTolerance,
                                        TEAM_SIMILARITY_THRESHOLD))}} :
                   b \in 1..(book - 1)}
    IN  MatchedPairs(book_events,
                     SelectSeq(match_events(book_events, anchor_events,
                                            DefaultTimeTolerance,
                                            TEAM_SIMILARITY_THRESHOLD),
                               LAMBDA p : p[2] \notin consumed))

BookPairs(book_events) ==
    MatchedPairs(book_events,
                 match_events(book_events, anchor_events,
                              DefaultTimeTolerance, TEAM_SIMILARITY_THRESHOLD))

\* line 141-143: the next book is matched against the anchor
GvbEnterBook(ps) ==
    /\ pairs' = ps
    /\ pair' = 1 /\ market' = 1
    /\ book' = IF ps = <<>> THEN book + 1 ELSE book
    /\ gpc' = IF ps = <<>> THEN "books" ELSE "markets"
    /\ UNCHANGED <<anchor_events, soft_books, min_edge, bankroll, value_bets>>
    /\ UNCHANGED <<matchVars, devigVars, callVars, httpVars, mainVars>>

GvbMatchBook ==
    /\ gpc = "books" /\ book <= Len(soft_books)
    /\ GvbEnterBook(BookPairs(soft_books[book].book_events))

\* the loop position after one market type
GvbAdvance ==
    IF market < Len(MarketTypes)
    THEN /\ market' = market + 1
         /\ UNCHANGED <<pair, pairs, book, gpc>>
    ELSE IF pair < Len(pairs)
    THEN /\ market' = 1 /\ pair' = pair + 1
         /\ UNCHANGED <<pairs, book, gpc>>
    ELSE /\ market' = 1 /\ pair' = 1 /\ pairs' = <<>>
         /\ book' = book + 1 /\ gpc' = "books"

GvbCommit(r, status) ==
    /\ r.status = status
    /\ IF status = "raise"
       THEN /\ gpc' = "raised"
            /\ UNCHANGED <<value_bets, market, pair, pairs, book>>
       ELSE /\ value_bets' = value_bets \o r.bets
            /\ GvbAdvance
    /\ UNCHANGED <<anchor_events, soft_books, min_edge, bankroll>>
    /\ UNCHANGED <<matchVars, devigVars, callVars, httpVars, mainVars>>

GvbMarketStep(status) ==
    GvbCommit(ProcessMarket(pairs[pair][1], pairs[pair][2],
                            soft_books[book].book_name, MarketTypes[market],
                            min_edge, bankroll),
              status)

\* line 148-149: one of the two events does not carry the market type
GvbMarketAbsent ==
    /\ gpc = "markets"
    /\ GvbMarketStep("absent")

\* line 162-163: no probabilities for one of the sides
GvbMarketNoProbs ==
    /\ gpc = "markets"
    /\ GvbMarketStep("noprobs")

\* lines 166-211: the outcomes are screened, value bets appended
GvbMarketBets ==
    /\ gpc = "markets"
    /\ GvbMarketStep("bets")

\* an exception leaves generate_value_bets
GvbMarketRaise ==
    /\ gpc = "markets"
    /\ GvbMarketStep("raise")

\* lines 214-217: the bets are sorted and returned
GvbReturn ==
    /\ gpc = "books" /\ book > Len(soft_books)
    /\ value_bets' = SortByEdge(value_bets)
    /\ gpc' = "done"
    /\ UNCHANGED <<anchor_events, soft_books, min_edge, bankroll,
                   book, pairs, pair, market>>
    /\ UNCHANGED <<matchVars, devigVars, callVars, httpVars, mainVars>>

GvbNext ==
    \/ GvbMatchBook \/ GvbMarketAbsent \/ GvbMarketNoProbs
    \/ GvbMarketBets \/ GvbMarketRaise \/ GvbReturn

SpecGvb == GvbInit /\ [][GvbNext]_vars

(***************************************************************************)
(* calculate_edge, one call per behaviour.                                 *)
(***************************************************************************)
\* probabilities k/EdgeGrid and odds 1 + k/4, k in 0..EdgeGrid
EdgeGrid == 10

EdgeProbs == {Rat(k, EdgeGrid) : k \in 0..EdgeGrid}

EdgeOdds == {Rat(4 + k, 4) : k \in 0..EdgeGrid}

EdgeInit ==
    /\ args \in [true_prob : EdgeProbs, offered_odds : EdgeOdds]
    /\ ret = <<>>
    /\ cpc = "call"
    /\ MatchIdle
    /\ DevigIdle
    /\ GvbIdle
    /\ HttpIdle
    /\ MainIdle

EdgeReturn ==
    /\ cpc = "call"
    /\ ret' = calculate_edge(args.true_prob, args.offered_odds)
    /\ cpc' = "returned"
    /\ UNCHANGED <<args, matchVars, devigVars, gvbVars, httpVars, mainVars>>

EdgeNext == EdgeReturn

SpecEdge == EdgeInit /\ [][EdgeNext]_vars

(***************************************************************************)
(* kelly_stake, one call per behaviour.                                    *)
(***************************************************************************)
KellyEdges == {Rat(-1, 10), RInt(0), Rat(1, 40), Rat(1, 10), RInt(1), RInt(5)}

KellyOdds == {Rat(1, 2), RInt(1), Rat(11, 10), RInt(2), RInt(5)}

KellyBankrolls == {RInt(-100), RInt(0), RInt(100), RInt(1000)}

KellyFractions == {Rat(-1, 4), RInt(0), KELLY_FRACTION, RInt(1), RInt(4)}

KellyInit ==
    /\ args \in [edge : KellyEdges, odds : KellyOdds,
                 bankroll : KellyBankrolls, kelly_fraction : KellyFractions]
    /\ ret = <<>>
    /\ cpc = "call"
    /\ MatchIdle
    /\ DevigIdle
    /\ GvbIdle
    /\ HttpIdle
    /\ MainIdle

KellyCommit(stake) ==
    /\ ret' = stake
    /\ cpc' = "returned"
    /\ UNCHANGED <<args, matchVars, devigVars, gvbVars, httpVars, mainVars>>

\* line 65-66: nothing to stake
KellyNoStake ==
    /\ cpc = "call"
    /\ RLe(args.edge, RInt(0)) \/ RLe(args.odds, RInt(1))
    /\ KellyCommit(kelly_stake(args.edge, args.odds, args.bankroll,
                               args.kelly_fraction))

\* lines 68-79: the capped fractional Kelly stake
KellyStake ==
    /\ cpc = "call"
    /\ ~(RLe(args.edge, RInt(0)) \/ RLe(args.odds, RInt(1)))
    /\ KellyCommit(kelly_stake(args.edge, args.odds, args.bankroll,
                               args.kelly_fraction))

KellyNext == KellyNoStake \/ KellyStake

SpecKelly == KellyInit /\ [][KellyNext]_vars

(***************************************************************************)
(* check_home_away_swap, one call per behaviour.                           *)
(***************************************************************************)
SwapKeys ==
    {<<>>, <<"home">>, <<"home", "away">>, <<"home", "draw", "away">>,
     <<"yes", "no">>}

SwapOddsOver(roots, n) == {RPow(r, IF n >= 3 THEN n - 1 ELSE 1) : r \in roots}

SwapSoftValues(n) ==
    SwapOddsOver({RInt(2), RInt(4), RInt(8)}, n)
        \cup {RInt(0), RInt(-2), None}

SwapAnchorValues(n) ==
    SwapOddsOver({RInt(2), RInt(4)}, n) \cup {RInt(0), None}

SwapSoftOdds ==
    UNION {{Dict(ks, vals) : vals \in [1..Len(ks) -> SwapSoftValues(Len(ks))]} :
           ks \in SwapKeys}

SwapAnchorOdds ==
    UNION {{Dict(ks, vals) : vals \in [1..Len(ks) -> SwapAnchorValues(Len(ks))]} :
           ks \in SwapKeys}

SwapInit ==
    /\ args \in [soft_odds : SwapSoftOdds, anchor_odds : SwapAnchorOdds]
    /\ ret = <<>>
    /\ cpc = "call"
    /\ MatchIdle
    /\ DevigIdle
    /\ GvbIdle
    /\ HttpIdle
    /\ MainIdle

\* the way check_home_away_swap ended, given what it returns
SwapPath(normal, anchor, r) ==
    IF r.kind = "TypeError" THEN "raise"
    ELSE IF r.kind = "complex" THEN "complex"
    ELSE IF Falsy(normal) \/ Falsy(anchor) THEN "fallback"
    ELSE IF r = normal THEN "keep"
    ELSE "adopt"

SwapCommit(path, r, ended) ==
    /\ path = ended
    /\ ret' = r
    /\ cpc' = IF path = "raise" THEN "raised" ELSE "returned"
    /\ UNCHANGED <<args, matchVars, devigVars, gvbVars, httpVars, mainVars>>

SwapEnd(path, normal, anchor, r) ==
    SwapCommit(path, r, SwapPath(normal, anchor, r))

SwapOn(path, normal, anchor) ==
    SwapEnd(path, normal, anchor, SwapCheck(args.soft_odds, normal, anchor))

SwapStep(path) ==
    SwapOn(path, remove_vig_multiplicative(args.soft_odds),
           remove_vig_multiplicative(args.anchor_odds))

\* line 92: one of the two mappings is missing or empty
SwapFallback ==
    /\ cpc = "call"
    /\ SwapStep("fallback")

\* line 113: the swapped orientation is adopted
SwapAdopt ==
    /\ cpc = "call"
    /\ SwapStep("adopt")

\* line 115: the soft market's own probabilities
SwapKeep ==
    /\ cpc = "call"
    /\ SwapStep("keep")

\* lines 88, 89, 105: 1.0 / None raises TypeError
SwapRaise ==
    /\ cpc = "call"
    /\ SwapStep("raise")

\* a mapping of complex numbers is in play
SwapComplex ==
    /\ cpc = "call"
    /\ SwapStep("complex")

SwapNext == SwapFallback \/ SwapAdopt \/ SwapKeep \/ SwapRaise \/ SwapComplex

SpecSwap == SwapInit /\ [][SwapNext]_vars

(***************************************************************************)
(* normalize_team_name, one call per behaviour.                            *)
(***************************************************************************)
ManUtd == <<"M","a","n"," ","U","t","d">>
ManUnited == <<"M","a","n"," ","U","n","i","t","e","d">>
ManchesterUnited == <<"M","a","n","c","h","e","s","t","e","r"," ","U","n","i","t","e","d">>
ManchesterUnitedFc == <<"m","a","n","c","h","e","s","t","e","r"," ","u","n","i","t","e","d"," ","f","c">>
Manchester == <<"M","a","n","c","h","e","s","t","e","r">>
Wrexham == <<"W","r","e","x","h","a","m">>

UpperChar(c) ==
    IF \E i \in 1..Len(Lower) : Lower[i] = c
    THEN Upper[CHOOSE i \in 1..Len(Lower) : Lower[i] = c]
    ELSE c

NameBases ==
    {Ajax, Psv, Az, ManUtd, ManUnited, ManchesterUnited, Manchester, Wrexham}

\* a name as written, in lower case and in upper case
NameForms(b) == {b, MapSeq(b, LowerChar), MapSeq(b, UpperChar)}

NamePrefixes == {<<>>, <<"A","F","C"," ">>}

NameSuffixes == {<<>>, <<" ","F","C">>, <<" ","f","c">>, <<" ","U","n","i","t","e","d">>}

\* names of whitespace and of the punctuation normalize_team_name replaces
BlankNames ==
    {<<" ">>, <<" ", "\t", " ">>, <<"-">>, <<".", " ", "-", " ", "/">>,
     <<"'">>, <<".", "A", "j", "a", "x", ".">>}

NamePool ==
    {<<>>} \cup BlankNames
       \cup {p \o f \o x : p \in NamePrefixes,
                            f \in UNION {NameForms(b) : b \in NameBases},
                            x \in NameSuffixes}

NormInit ==
    /\ args \in [name : NamePool]
    /\ ret = <<>>
    /\ cpc = "call"
    /\ MatchIdle
    /\ DevigIdle
    /\ GvbIdle
    /\ HttpIdle
    /\ MainIdle

\* the return statement normalize_team_name leaves by, given the results
\* of its three lookups
NormPath(name, hits) ==
    IF name = <<>> THEN "empty"
    ELSE IF hits[1] # {} THEN "direct"
    ELSE IF hits[2] # {} THEN "prefix"
    ELSE IF hits[3] # {} THEN "suffix"
    ELSE "normalized"

NormCommit(path, taken) ==
    /\ path = taken
    /\ ret' = normalize_team_name(args.name)
    /\ cpc' = "returned"
    /\ UNCHANGED <<args, matchVars, devigVars, gvbVars, httpVars, mainVars>>

NormStep(path) ==
    NormCommit(path, NormPath(args.name, Lookups(BasicNormalize(args.name))))

\* lines 162-163
NormEmpty ==
    /\ cpc = "call"
    /\ NormStep("empty")

\* lines 171-172
NormDirect ==
    /\ cpc = "call"
    /\ NormStep("direct")

\* lines 175-177
NormPrefix ==
    /\ cpc = "call"
    /\ NormStep("prefix")

\* lines 180-182
NormSuffix ==
    /\ cpc = "call"
    /\ NormStep("suffix")

\* line 185
NormNormalized ==
    /\ cpc = "call"
    /\ NormStep("normalized")

NormNext ==
    NormEmpty \/ NormDirect \/ NormPrefix \/ NormSuffix \/ NormNormalized

SpecNorm == NormInit /\ [][NormNext]_vars

(***************************************************************************)
(* core/http_client.py: one HttpClient shared by concurrent callers of     *)
(* get and post_json.  A step runs one caller from one await to the next.  *)
(***************************************************************************)
MaxCallers == 2

MaxConcurrency == 2

\* config/settings.py line 11
HTTP_RETRIES == 2

Callers == 1..MaxCallers

\* the statuses a response is drawn from: handled by line 42, by line 51,
\* and by lines 53-54
Statuses == {200, 404, 500}

\* line 51
EmptyStatuses == {204, 304, 404}

\* no response was received in the current attempt
NoResponse == <<>>

\* a response whose handling awaits the body: resp.json and resp.text for
\* 200 (lines 44, 46), resp.text for the statuses of line 53
BodyStatuses == Statuses \ EmptyStatuses

\* line 58
MoreAttempts(a, r) == a < r

\* line 59: 0.5 * (attempt + 1) seconds
RetryDelay(a) == RMul(Rat(1, 2), RInt(a + 1))

HttpInit ==
    /\ concurrency \in 1..MaxConcurrency
    /\ retries \in 0..HTTP_RETRIES
    /\ semaphore = concurrency
    /\ waiters = <<>>
    /\ hpc = [c \in Callers |-> "start"]
    /\ attempt = [c \in Callers |-> 0]
    /\ resp_status = [c \in Callers |-> NoResponse]
    /\ delay = [c \in Callers |-> RInt(0)]
    /\ hret = [c \in Callers |-> "pending"]
    /\ MatchIdle
    /\ DevigIdle
    /\ GvbIdle
    /\ CallIdle
    /\ MainIdle

\* line 40, entering "async with self.semaphore": the caller takes a permit
\* when one is free and nobody waits, and queues up otherwise
Acquire(c) ==
    IF semaphore > 0 /\ waiters = <<>>
    THEN /\ semaphore' = semaphore - 1
         /\ hpc' = [hpc EXCEPT ![c] = "request"]
         /\ UNCHANGED waiters
    ELSE /\ waiters' = Append(waiters, c)
         /\ hpc' = [hpc EXCEPT ![c] = "waiting"]
         /\ UNCHANGED semaphore

\* mutant: the permit is kept when the attempt ends
Release_Kept(c, next) ==
    /\ hpc' = [hpc EXCEPT ![c] = next]
    /\ UNCHANGED <<semaphore, waiters>>

\* line 40, leaving "async with self.semaphore": the permit goes to the
\* caller that waited longest, or back to the semaphore
Release(c, next) ==
    IF waiters = <<>>
    THEN /\ semaphore' = semaphore + 1
         /\ hpc' = [hpc EXCEPT ![c] = next]
         /\ UNCHANGED waiters
    ELSE /\ waiters' = Tail(waiters)
         /\ hpc' = [hpc EXCEPT ![c] = next, ![Head(waiters)] = "request"]
         /\ UNCHANGED semaphore

\* lines 62-66, 31-40: get or post_json is called; the first attempt
\* starts
HttpCall(c) ==
    /\ hpc[c] = "start"
    /\ Acquire(c)
    /\ UNCHANGED <<concurrency, retries, attempt, resp_status, delay, hret>>
    /\ UNCHANGED <<matchVars, devigVars, gvbVars, callVars, mainVars>>

\* the attempt ends the call with value v after a response with status s
HttpReturn(c, s, v) ==
    /\ resp_status' = [resp_status EXCEPT ![c] = s]
    /\ hret' = [hret EXCEPT ![c] = v]
    /\ Release(c, "returned")
    /\ UNCHANGED <<concurrency, retries, attempt, delay>>
    /\ UNCHANGED <<matchVars, devigVars, gvbVars, callVars, mainVars>>

\* lines 42-48: status 200 and the body parsed by resp.json or json.loads
HttpBody(c) ==
    /\ hpc[c] = "request"
    /\ HttpReturn(c, <<200>>, "body")

\* lines 49-54: status 200 with a body that does not parse, a status of
\* line 51, or any other status
HttpNone(c) ==
    /\ hpc[c] = "request"
    /\ \E s \in Statuses : HttpReturn(c, <<s>>, "None")

\* what an attempt may raise from: the request itself (line 41), or an
\* await on the body of a response (lines 46, 53)
RaisedFrom == {NoResponse} \cup {<<s>> : s \in BodyStatuses}

\* lines 55-59: the attempt raised and another one follows after the sleep
HttpRaiseRetry(c) ==
    /\ hpc[c] = "request"
    /\ MoreAttempts(attempt[c], retries)
    /\ \E s \in RaisedFrom : resp_status' = [resp_status EXCEPT ![c] = s]
    /\ delay' = [delay EXCEPT ![c] = RetryDelay(attempt[c])]
    /\ Release(c, "sleep")
    /\ UNCHANGED <<concurrency, retries, attempt, hret>>
    /\ UNCHANGED <<matchVars, devigVars, gvbVars, callVars, mainVars>>

\* lines 55-60: the last attempt raised
HttpRaiseLast(c) ==
    /\ hpc[c] = "request"
    /\ ~MoreAttempts(attempt[c], retries)
    /\ \E s \in RaisedFrom : resp_status' = [resp_status EXCEPT ![c] = s]
    /\ hret' = [hret EXCEPT ![c] = "None"]
    /\ Release(c, "returned")
    /\ UNCHANGED <<concurrency, retries, attempt, delay>>
    /\ UNCHANGED <<matchVars, devigVars, gvbVars, callVars, mainVars>>

\* lines 59, 38-40: the sleep is over and the next attempt starts
HttpWake(c) ==
    /\ hpc[c] = "sleep"
    /\ attempt' = [attempt EXCEPT ![c] = attempt[c] + 1]
    /\ resp_status' = [resp_status EXCEPT ![c] = NoResponse]
    /\ Acquire(c)
    /\ UNCHANGED <<concurrency, retries, delay, hret>>
    /\ UNCHANGED <<matchVars, devigVars, gvbVars, callVars, mainVars>>

\* an attempt in flight ends
HttpEnd(c) ==
    HttpBody(c) \/ HttpNone(c) \/ HttpRaiseRetry(c) \/ HttpRaiseLast(c)

HttpNext == \E c \in Callers : HttpCall(c) \/ HttpEnd(c) \/ HttpWake(c)

SpecHttp == HttpInit /\ [][HttpNext]_vars

\* every request ends, by the total timeout of line 23 at the latest, and
\* every sleep ends
SpecHttpFair ==
    /\ HttpInit
    /\ [][HttpNext]_vars
    /\ \A c \in Callers : WF_vars(HttpEnd(c)) /\ WF_vars(HttpWake(c))

(***************************************************************************)
(* main.py: main, from the end of the data collection (line 119) on.  The  *)
(* call of generate_value_bets runs by the steps of that function.         *)
(***************************************************************************)
\* lines 107-109: the raw data files
RawFiles == {"pinnacle.json", "jacks.json", "toto.json"}

\* lines 139-140: the result files
ResultFiles == {"value_bets.json", "value_bets.csv"}

\* line 130: the two soft books main passes
MainBooks ==
    {<<[book_name |-> "jacks", book_events |-> jacks_events],
       [book_name |-> "toto", book_events |-> toto_events]>> :
        jacks_events \in BookPool, toto_events \in BookPool}

\* lines 149-151
Field(bets, name) == [i \in 1..Len(bets) |-> bets[i][name]]

total_ev(bets) == RSum(Field(bets, "expected_value"))

avg_edge(bets) == RDiv(RSum(Field(bets, "edge_percentage")), RInt(Len(bets)))

total_stake(bets) == RSum(Field(bets, "recommended_stake"))

\* line 160: total_ev / total_stake raises ZeroDivisionError
RoiRaises(bets) == total_stake(bets) = RInt(0)

MainInit ==
    /\ anchor_events \in AnchorPool \cup {<<>>}
    /\ soft_books \in MainBooks
    /\ min_edge \in MinEdges
    /\ bankroll \in Bankrolls
    /\ book = 1 /\ pairs = <<>> /\ pair = 1 /\ market = 1
    /\ value_bets = <<>>
    /\ gpc = "idle"
    /\ mpc = "collected"
    /\ output = RawFiles
    /\ MatchIdle
    /\ DevigIdle
    /\ CallIdle
    /\ HttpIdle

MainStep(next, files) ==
    /\ mpc' = next
    /\ output' = output \cup files
    /\ UNCHANGED <<gvbVars, matchVars, devigVars, callVars, httpVars>>

\* lines 121-123: without anchor events the run ends
MainNoAnchor ==
    /\ mpc = "collected"
    /\ anchor_events = <<>>
    /\ MainStep("ended", {})

\* lines 128-133: generate_value_bets is called
MainAnalyze ==
    /\ mpc = "collected"
    /\ anchor_events # <<>>
    /\ mpc' = "analysis"
    /\ gpc' = "books"
    /\ UNCHANGED <<anchor_events, soft_books, min_edge, bankroll,
                   book, pairs, pair, market, value_bets, output>>
    /\ UNCHANGED <<matchVars, devigVars, callVars, httpVars>>

\* line 128: an exception of generate_value_bets leaves main
MainAnalysisRaised ==
    /\ mpc = "analysis"
    /\ gpc = "raised"
    /\ MainStep("raised", {})

\* lines 139-145: the result files are saved; no value bet, no statistics
MainNoBets ==
    /\ mpc = "analysis"
    /\ gpc = "done"
    /\ value_bets = <<>>
    /\ MainStep("ended", ResultFiles)

\* lines 139-160: the result files, the summary and the statistics
MainStatistics ==
    /\ mpc = "analysis"
    /\ gpc = "done"
    /\ value_bets # <<>>
    /\ ~RoiRaises(value_bets)
    /\ MainStep("ended", ResultFiles)

\* lines 139-160: the division of line 160 raises
MainStatisticsRaise ==
    /\ mpc = "analysis"
    /\ gpc = "done"
    /\ value_bets # <<>>
    /\ RoiRaises(value_bets)
    /\ MainStep("raised", ResultFiles)

MainNext ==
    \/ MainNoAnchor \/ MainAnalyze \/ MainAnalysisRaised
    \/ MainNoBets \/ MainStatistics \/ MainStatisticsRaise
    \/ GvbMatchBook \/ GvbMarketAbsent \/ GvbMarketNoProbs
    \/ GvbMarketBets \/ GvbMarketRaise \/ GvbReturn

SpecMain == MainInit /\ [][MainNext]_vars

(***************************************************************************)
(* Properties of match_events.                                             *)
(***************************************************************************)
\* the k-th returned pair
PairLeft(k) == left[matches[k][1]]
PairRight(k) == right[matches[k][2]]

\* the right positions consumed before left position li was processed
UsedBefore(li) == {matches[k][2] : k \in {j \in 1..Len(matches) : matches[j][1] < li}}

\* the kickoff difference in seconds of two events whose kickoffs parse
KickoffGap(l, r) ==
    Abs((r.kickoff_utc[1] * 3600 + r.kickoff_utc[2] * 60 + r.kickoff_utc[3])
        - (l.kickoff_utc[1] * 3600 + l.kickoff_utc[2] * 60 + l.kickoff_utc[3]))

\* a kickoff string fromisoformat accepts
WellFormedKickoff(k) ==
    Len(k) = 3 /\ k[1] \in 0..23 /\ k[2] \in 0..59 /\ k[3] \in 0..59

ExactNames(l, r) == NameFacts(Names(l), Names(r)).exact_match

\* the right positions that qualify for the left event at li, given the
\* positions consumed before it: same league, not consumed, names exact or
\* similar enough, kickoffs within the tolerance
Qualifying(li, consumed) ==
    {idx \in 1..Len(right) :
        /\ idx \notin consumed
        /\ right[idx].league = left[li].league
        /\ NamesQualify(NameFacts(Names(left[li]), Names(right[idx])),
                        min_similarity)
        /\ WellFormedKickoff(left[li].kickoff_utc)
        /\ WellFormedKickoff(right[idx].kickoff_utc)
        /\ KickoffGap(left[li], right[idx]) <= time_tolerance_minutes * 60}

\* the score of section 4.2: seconds apart, plus 1000 for a fuzzy match
ClaimScore(l, r) == KickoffGap(l, r) + (IF ExactNames(l, r) THEN 0 ELSE 1000)

\* C1: no two returned pairs share a right position, and no two share a
\* left position.
C1_OneToOne ==
    \A i, j \in 1..Len(matches) :
        i # j => /\ matches[i][2] # matches[j][2]
                 /\ matches[i][1] # matches[j][1]

\* C1 witness: two left events that each qualify for the single right
\* event were processed, and only the first got it.
C1_Witness ==
    /\ pc = "done" /\ Len(left) = 2 /\ Len(right) = 1
    /\ \A li \in 1..2 : Qualifying(li, {}) = {1}
    /\ matches = <<<<1, 1>>>>

\* C2 (as claimed): whenever the qualifying candidates of a left event
\* include an exact-name match, the right event paired with it is an exact
\* match.
C2_ExactNeverDisplaced ==
    \A k \in 1..Len(matches) :
        (\E idx \in Qualifying(matches[k][1], UsedBefore(matches[k][1])) :
            ExactNames(PairLeft(k), right[idx]))
        => ExactNames(PairLeft(k), PairRight(k))

\* C3: every returned pair has equal leagues, kickoffs at most the
\* tolerance apart (the tolerance itself included), and names that are
\* exactly equal after normalisation or similar enough.
C3_PairsQualify ==
    \A k \in 1..Len(matches) :
        /\ PairLeft(k).league = PairRight(k).league
        /\ WellFormedKickoff(PairLeft(k).kickoff_utc)
        /\ WellFormedKickoff(PairRight(k).kickoff_utc)
        /\ KickoffGap(PairLeft(k), PairRight(k)) <= time_tolerance_minutes * 60
        /\ \/ ExactNames(PairLeft(k), PairRight(k))
           \/ RLe(min_similarity,
                  NameFacts(Names(PairLeft(k)), Names(PairRight(k))).avg_similarity)

\* C3 witness: a pair whose kickoffs are exactly the tolerance apart was
\* returned, and an identically named right event beyond the tolerance was
\* left unpaired.
C3_Witness ==
    /\ pc = "done"
    /\ \E k \in 1..Len(matches) :
          KickoffGap(PairLeft(k), PairRight(k)) = time_tolerance_minutes * 60
    /\ \E li \in 1..Len(left), idx \in 1..Len(right) :
          /\ idx \notin used_indices
          /\ ExactNames(left[li], right[idx])
          /\ left[li].league = right[idx].league
          /\ WellFormedKickoff(left[li].kickoff_utc)
          /\ WellFormedKickoff(right[idx].kickoff_utc)
          /\ KickoffGap(left[li], right[idx]) > time_tolerance_minutes * 60

\* C4 (as claimed): every processed left event with a qualifying candidate
\* has exactly one pair, with a candidate of minimum score; every processed
\* left event without one has no pair; only paired right events are
\* consumed.
C4_MinimumScorePair ==
    /\ used_indices = {matches[k][2] : k \in 1..Len(matches)}
    /\ \A li \in 1..(pos - 1) :
          IF Qualifying(li, UsedBefore(li)) = {}
          THEN \A k \in 1..Len(matches) : matches[k][1] # li
          ELSE /\ Cardinality({k \in 1..Len(matches) : matches[k][1] = li}) = 1
               /\ \A k \in 1..Len(matches) :
                     matches[k][1] = li =>
                        /\ matches[k][2] \in Qualifying(li, UsedBefore(li))
                        /\ \A idx \in Qualifying(li, UsedBefore(li)) :
                              ClaimScore(left[li], PairRight(k))
                                 <= ClaimScore(left[li], right[idx])

\* the left events whose kickoff parses, in order
WellFormedLeft == SelectSeq(left, LAMBDA e : WellFormedKickoff(e.kickoff_utc))

\* pairs as <<left event, right position>>
AsEvents(m, ls) == [k \in 1..Len(m) |-> <<ls[m[k][1]], m[k][2]>>]

\* C5: a left event whose kickoff does not parse is in no pair and consumes
\* no right event, and the call still returns: the pairs are those returned
\* for the left list without the malformed events.
C5_MalformedLeftSkipped ==
    /\ \A k \in 1..Len(matches) : WellFormedKickoff(PairLeft(k).kickoff_utc)
    /\ used_indices = {matches[k][2] : k \in 1..Len(matches)}
    /\ pc = "done" =>
          AsEvents(matches, left)
             = AsEvents(match_events(WellFormedLeft, right,
                                     time_tolerance_minutes, min_similarity),
                        WellFormedLeft)

\* C5 witness: the call returned, a malformed left event was skipped with a
\* warning, and a later left event was paired.
C5_Witness ==
    /\ pc = "done"
    /\ \E li \in 1..Len(left), k \in 1..Len(matches) :
          /\ ~WellFormedKickoff(left[li].kickoff_utc)
          /\ \E n \in 1..Len(log) : log[n] = <<"warning", li>>
          /\ matches[k][1] > li

(***************************************************************************)
(* Properties of generate_value_bets.                                      *)
(***************************************************************************)
\* C6 (as claimed): generate_value_bets never raises: a partial or
\* malformed market mapping of a matched pair is skipped and the call
\* still returns.
C6_NeverRaises == gpc # "raised"

(***************************************************************************)
(* Properties of remove_vig_multiplicative.                                *)
(***************************************************************************)
\* the outcomes of the input mapping: its keys other than margin and line
ClaimOutcomes == KeySet(odds) \ {"margin", "line"}

\* the call has ended, by a return or by an exception
DevigEnded == dpc \in {"returned", "raised"}

IsNumber(v) == v.d > 0

ReturnedProbs == devig_result.kind = "probs"

ReturnedSum ==
    RSum([i \in 1..Len(devig_result.probs.keys) |->
             devig_result.probs.val[devig_result.probs.keys[i]]])

\* C7 (as claimed): for an input of two or more outcomes of which one has
\* zero, negative or missing (None) odds, the call returns None: it neither
\* raises nor returns a mapping.
C7_NoResultOnBadOdds ==
    (/\ DevigEnded
     /\ Cardinality(ClaimOutcomes) >= 2
     /\ \E k \in ClaimOutcomes : ~IsNumber(odds.val[k]) \/ odds.val[k].n <= 0)
    => dpc = "returned" /\ devig_result.kind = "None"

\* C8: for an input of at least one outcome whose odds all exceed 1, the
\* call returns a probability mapping whose values lie in (0, 1] and sum
\* to 1.
C8_ProbabilitiesSumToOne ==
    (/\ DevigEnded
     /\ ClaimOutcomes # {}
     /\ \A k \in ClaimOutcomes :
           IsNumber(odds.val[k]) /\ odds.val[k].n > odds.val[k].d)
    => /\ dpc = "returned" /\ ReturnedProbs
       /\ \A k \in KeySet(devig_result.probs) :
             /\ devig_result.probs.val[k].n > 0
             /\ devig_result.probs.val[k].n <= devig_result.probs.val[k].d
       /\ ReturnedSum = RInt(1)

\* C8 witness: three outcomes with unequal odds above 1 and a margin key
\* were devigged into a mapping.
C8_Witness ==
    /\ dpc = "returned" /\ ReturnedProbs
    /\ Cardinality(ClaimOutcomes) = 3
    /\ "margin" \in KeySet(odds)
    /\ \A k \in ClaimOutcomes : odds.val[k].n > odds.val[k].d
    /\ \E k, j \in ClaimOutcomes : odds.val[k] # odds.val[j]

\* the sum of the implied probabilities 1/odds of the outcomes
ImpliedTotal ==
    RSum([i \in 1..Len(odds.keys) |->
             IF odds.keys[i] \in ClaimOutcomes
             THEN [n |-> odds.val[odds.keys[i]].d, d |-> odds.val[odds.keys[i]].n]
             ELSE RInt(0)])

\* how close "approximately" is taken to be
ApproxTolerance == Rat(1, 100)

\* C9 (as claimed): for already-fair odds (positive, implied probabilities
\* summing to 1) the call returns for each outcome its implied probability
\* 1/odds, up to the tolerance.
C9_FairOddsReproduced ==
    (/\ DevigEnded
     /\ Cardinality(ClaimOutcomes) >= 2
     /\ \A k \in ClaimOutcomes : IsNumber(odds.val[k]) /\ odds.val[k].n > 0
     /\ ImpliedTotal = RInt(1))
    => /\ dpc = "returned" /\ ReturnedProbs
       /\ \A k \in ClaimOutcomes :
             RLe(RAbs(RSub(devig_result.probs.val[k],
                           [n |-> odds.val[k].d, d |-> odds.val[k].n])),
                 ApproxTolerance)

\* C10: n >= 1 outcomes that all have the same odds above 1 get the
\* probability 1/n each.
C10_EqualOddsUniform ==
    (/\ DevigEnded
     /\ ClaimOutcomes # {}
     /\ \E k \in ClaimOutcomes :
           /\ IsNumber(odds.val[k]) /\ odds.val[k].n > odds.val[k].d
           /\ \A j \in ClaimOutcomes : odds.val[j] = odds.val[k])
    => /\ dpc = "returned" /\ ReturnedProbs
       /\ KeySet(devig_result.probs) = ClaimOutcomes
       /\ \A k \in ClaimOutcomes :
             devig_result.probs.val[k] = Rat(1, Cardinality(ClaimOutcomes))

\* C10 witness: three outcomes with the same odds above 1 were devigged
\* into a mapping.
C10_Witness ==
    /\ dpc = "returned" /\ ReturnedProbs
    /\ Cardinality(ClaimOutcomes) = 3
    /\ \E k \in ClaimOutcomes :
          /\ odds.val[k].n > odds.val[k].d
          /\ \A j \in ClaimOutcomes : odds.val[j] = odds.val[k]

\* the input mapping without its margin and line items
WithoutAux ==
    [keys |-> SelectSeq(odds.keys, LAMBDA k : k \in ClaimOutcomes),
     val |-> [k \in ClaimOutcomes |-> odds.val[k]]]

\* a mapping was returned, of real or of complex numbers
ReturnedMapping == devig_result.kind \in {"probs", "complex"}

\* C11 (as claimed): the keys of a returned mapping are the input's keys
\* without margin and line; the result is the one the input without those
\* two items gets; exactly one remaining outcome yields {outcome: 1.0} and
\* no remaining outcome yields None.
C11_AuxKeysExcluded ==
    DevigEnded =>
       /\ ReturnedMapping => KeySet(devig_result.probs) = ClaimOutcomes
       /\ devig_result = remove_vig_multiplicative(WithoutAux)
       /\ Cardinality(ClaimOutcomes) = 1 =>
             /\ dpc = "returned" /\ ReturnedProbs
             /\ \A k \in ClaimOutcomes : devig_result.probs.val[k] = RInt(1)
       /\ ClaimOutcomes = {} => dpc = "returned" /\ devig_result.kind = "None"

(***************************************************************************)
(* Properties of calculate_edge.                                           *)
(***************************************************************************)
\* C12: the edge p * o - 1 does not decrease when the probability or the
\* odds grow, and grows strictly when the other argument is positive.
C12_EdgeMonotone ==
    cpc = "returned" =>
       /\ ret = RSub(RMul(args.true_prob, args.offered_odds), RInt(1))
       /\ \A p2 \in EdgeProbs :
             RLt(args.true_prob, p2) =>
                /\ RLe(ret, calculate_edge(p2, args.offered_odds))
                /\ args.offered_odds.n > 0 =>
                      RLt(ret, calculate_edge(p2, args.offered_odds))
       /\ \A o2 \in EdgeOdds :
             RLt(args.offered_odds, o2) =>
                /\ RLe(ret, calculate_edge(args.true_prob, o2))
                /\ args.true_prob.n > 0 =>
                      RLt(ret, calculate_edge(args.true_prob, o2))

\* C12 witness: an edge was computed for a positive probability and odds
\* that both have larger neighbours, and for a zero probability (where
\* larger odds leave the edge at -1).
C12_Witness ==
    /\ cpc = "returned"
    /\ \/ /\ args.true_prob.n > 0
          /\ \E p2 \in EdgeProbs : RLt(args.true_prob, p2)
          /\ \E o2 \in EdgeOdds : RLt(args.offered_odds, o2)
          /\ ret.n > 0
       \/ /\ args.true_prob.n = 0
          /\ \E o2 \in EdgeOdds :
                /\ RLt(args.offered_odds, o2)
                /\ calculate_edge(args.true_prob, o2) = ret

(***************************************************************************)
(* Properties of kelly_stake.                                              *)
(***************************************************************************)
\* the most that may be staked of the bankroll
StakeCap == RMul(args.bankroll, MAX_STAKE_PERCENTAGE)

NoStakeCase == RLe(args.edge, RInt(0)) \/ RLe(args.odds, RInt(1))

\* C13 (as claimed): the stake is exactly 0 when the edge is not positive or
\* the odds are at most 1, and for a positive edge it never exceeds
\* bankroll * MAX_STAKE_PERCENTAGE.
C13_ZeroOrCapped ==
    cpc = "returned" =>
       /\ NoStakeCase => ret = RInt(0)
       /\ RLt(RInt(0), args.edge) => RLe(ret, StakeCap)

\* C13 (amended): the stake is exactly 0 when the edge is not positive or
\* the odds are at most 1, and for a positive edge it never exceeds
\* bankroll * MAX_STAKE_PERCENTAGE, or 0 where the bankroll is negative.
C13_ZeroOrCappedAmended ==
    cpc = "returned" =>
       /\ NoStakeCase => ret = RInt(0)
       /\ RLt(RInt(0), args.edge) => RLe(ret, RMax(RInt(0), StakeCap))

\* C13 witness: the uncapped fractional Kelly stake would exceed the cap,
\* and the cap was returned.
C13_Witness ==
    /\ cpc = "returned"
    /\ ~NoStakeCase
    /\ RLt(RInt(0), args.bankroll)
    /\ RLt(StakeCap,
           RMul(RMul(RDiv(args.edge, RSub(args.odds, RInt(1))),
                     args.kelly_fraction), args.bankroll))
    /\ ret = StakeCap

\* C14: the stake is never negative, and is zero for a bankroll that is
\* zero or negative, and the call never raises.
C14_StakeNonNegative ==
    cpc = "returned" =>
       /\ RLe(RInt(0), ret)
       /\ RLe(args.bankroll, RInt(0)) => ret = RInt(0)

(***************************************************************************)
(* Properties of check_home_away_swap.                                     *)
(***************************************************************************)
SwapEnded == cpc \in {"returned", "raised"}

SoftDevig == remove_vig_multiplicative(args.soft_odds)

AnchorDevig == remove_vig_multiplicative(args.anchor_odds)

\* the soft market with the odds of home and away exchanged
ExchangedOdds ==
    Dict(args.soft_odds.keys,
         [i \in 1..Len(args.soft_odds.keys) |->
            IF {"home", "away"} \subseteq KeySet(args.soft_odds)
                  /\ args.soft_odds.keys[i] \in {"home", "away"}
            THEN args.soft_odds.val[IF args.soft_odds.keys[i] = "home"
                                    THEN "away" ELSE "home"]
            ELSE args.soft_odds.val[args.soft_odds.keys[i]]])

ExchangedDevig == remove_vig_multiplicative(ExchangedOdds)

\* a mapping of real probabilities with at least one outcome
RealMapping(r) == r.kind = "probs" /\ r.probs.keys # <<>>

\* the same outcomes with the same values, in whatever order
SameMapping(a, b) ==
    /\ KeySet(a) = KeySet(b)
    /\ \A k \in KeySet(a) : a.val[k] = b.val[k]

\* the swapped orientation is closer to the anchor by more than the margin
SwapCloser ==
    RLt(RAdd(Divergence(ExchangedDevig.probs, AnchorDevig.probs), Rat(5, 100)),
        Divergence(SoftDevig.probs, AnchorDevig.probs))

\* C15 (as claimed): where the soft and the anchor market de-vig to real
\* probabilities, the swapped probabilities are returned exactly when
\* swapped divergence + 0.05 < normal divergence, otherwise the soft
\* market's own; equal soft and anchor odds never adopt the swap.
C15_SwapIffCloser ==
    (SwapEnded /\ RealMapping(SoftDevig) /\ RealMapping(AnchorDevig)) =>
       /\ cpc = "returned"
       /\ ret.kind = "probs"
       /\ IF RealMapping(ExchangedDevig) /\ SwapCloser
          THEN SameMapping(ret.probs, ExchangedDevig.probs)
          ELSE SameMapping(ret.probs, SoftDevig.probs)
       /\ args.soft_odds = args.anchor_odds =>
             SameMapping(ret.probs, SoftDevig.probs)

DevigFailed(r) == r.kind \in {"None", "TypeError"}

\* C16: when the soft or the anchor market fails to de-vig, the mapping
\* of the one that succeeded is returned, the empty mapping only when both
\* failed, and nothing is raised.
C16_FallbackToSucceeded ==
    (SwapEnded /\ (DevigFailed(SoftDevig) \/ DevigFailed(AnchorDevig))) =>
       /\ cpc = "returned"
       /\ IF DevigFailed(SoftDevig) /\ DevigFailed(AnchorDevig)
          THEN ret.probs = EmptyDict
          ELSE IF DevigFailed(SoftDevig)
          THEN SameMapping(ret.probs, AnchorDevig.probs)
          ELSE SameMapping(ret.probs, SoftDevig.probs)

(***************************************************************************)
(* Properties of generate_value_bets.                                      *)
(***************************************************************************)
GvbEnded == gpc \in {"done", "raised"}

\* the outcome keys of a market: its keys but margin and line
MarketOutcomes(m) == KeySet(m) \ {"margin", "line"}

\* what identifies a ValueBet: provider, fixture, market type and outcome
BetKey(book_name, soft_event, market_type, outcome) ==
    <<book_name, soft_event.league, soft_event.kickoff_utc, soft_event.home,
      soft_event.away, market_type, outcome>>

\* the outcomes of one market type of a matched pair that are of value:
\* both markets de-vig, the outcome is the anchor's and a key of the soft
\* market, and anchor_prob * soft_odds - 1 >= min_edge
ValueOutcomes(soft_market, anchor_market, anchor_probs, soft_probs) ==
    IF ~(RealMapping(anchor_probs) /\ RealMapping(soft_probs)) THEN {}
    ELSE {o \in MarketOutcomes(anchor_market) \cap KeySet(soft_market) :
             RLe(min_edge,
                 RSub(RMul(anchor_probs.probs.val[o], soft_market.val[o]),
                      RInt(1)))}

PairValueKeys(book_name, soft_event, anchor_event) ==
    UNION {{BetKey(book_name, soft_event, mt, o) :
              o \in ValueOutcomes(soft_event.markets.val[mt],
                       anchor_event.markets.val[mt],
                       remove_vig_multiplicative(anchor_event.markets.val[mt]),
                       remove_vig_multiplicative(soft_event.markets.val[mt]))} :
           mt \in {"1x2", "ou_2_5", "btts"} \cap KeySet(soft_event.markets)
                     \cap KeySet(anchor_event.markets)}

BookValueKeys(book_name, ps) ==
    UNION {PairValueKeys(book_name, ps[k][1], ps[k][2]) : k \in 1..Len(ps)}

ExpectedKeys ==
    UNION {BookValueKeys(soft_books[b].book_name,
                         BookPairs(soft_books[b].book_events)) :
           b \in 1..Len(soft_books)}

ReturnedKeys ==
    {<<value_bets[i].bookmaker, value_bets[i].league, value_bets[i].kickoff,
       value_bets[i].home, value_bets[i].away, value_bets[i].market,
       value_bets[i].outcome>> : i \in 1..Len(value_bets)}

\* C17 (as claimed): a ValueBet is emitted for a provider, matched pair,
\* common market type and outcome exactly when both markets de-vig, the
\* outcome is the anchor's and a key of the soft market, and
\* anchor_prob * soft_odds - 1 >= min_edge; none has an edge_percentage
\* below 100 * min_edge.
C17_EmittedIffValue ==
    GvbEnded =>
       /\ gpc = "done"
       /\ ReturnedKeys = ExpectedKeys
       /\ Len(value_bets) = Cardinality(ExpectedKeys)
       /\ \A i \in 1..Len(value_bets) :
             RLe(RMul(RInt(100), min_edge), value_bets[i].edge_percentage)

\* where a returned bet was produced: the position of its provider in the
\* mapping, of its soft event in the provider's list, of its market type
\* among 1x2, ou_2_5, btts, and of its outcome among the anchor's keys
IsSoftEventOf(bet, e) ==
    /\ e.league = bet.league /\ e.kickoff_utc = bet.kickoff
    /\ e.home = bet.home /\ e.away = bet.away

BookIndex(bet) ==
    CHOOSE b \in 1..Len(soft_books) : soft_books[b].book_name = bet.bookmaker

SoftIndex(bet, book_events) ==
    CHOOSE i \in 1..Len(book_events) : IsSoftEventOf(bet, book_events[i])

MarketIndex(bet) == CHOOSE m \in 1..3 : <<"1x2", "ou_2_5", "btts">>[m] = bet.market

AnchorKeys(bet, ps) ==
    ps[CHOOSE k \in 1..Len(ps) : IsSoftEventOf(bet, ps[k][1])][2]
        .markets.val[bet.market].keys

OutcomeIndex(bet, keys) == CHOOSE i \in 1..Len(keys) : keys[i] = bet.outcome

EmissionRankIn(bet, book_events) ==
    <<BookIndex(bet), SoftIndex(bet, book_events), MarketIndex(bet),
      OutcomeIndex(bet, AnchorKeys(bet, BookPairs(book_events)))>>

EmissionRank(bet) ==
    EmissionRankIn(bet, soft_books[BookIndex(bet)].book_events)

\* lexicographic order of two ranks
RankBefore(r, q) ==
    \E i \in 1..4 : r[i] < q[i] /\ \A j \in 1..(i - 1) : r[j] = q[j]

\* C18: the returned list is in non-increasing order of edge_percentage,
\* and bets of equal edge_percentage are in the order of their emission.
C18_SortedStable ==
    gpc = "done" =>
       \A i \in 1..Len(value_bets) : \A j \in (i + 1)..Len(value_bets) :
          /\ RLe(value_bets[j].edge_percentage, value_bets[i].edge_percentage)
          /\ value_bets[j].edge_percentage = value_bets[i].edge_percentage =>
                RankBefore(EmissionRank(value_bets[i]),
                           EmissionRank(value_bets[j]))

\* C18 witness: a list was returned in which a bet of larger edge was
\* emitted after one of smaller edge, and in which bets of equal edge differ
\* in the provider, in the soft event, in the market type and in the outcome.
C18_Witness ==
    /\ gpc = "done"
    /\ \E i, j \in 1..Len(value_bets) :
          /\ RLt(value_bets[j].edge_percentage, value_bets[i].edge_percentage)
          /\ RankBefore(EmissionRank(value_bets[j]),
                        EmissionRank(value_bets[i]))
    /\ \A c \in 1..4 :
          \E i, j \in 1..Len(value_bets) :
             /\ value_bets[j].edge_percentage = value_bets[i].edge_percentage
             /\ EmissionRank(value_bets[i])[c] < EmissionRank(value_bets[j])[c]
             /\ \A d \in 1..(c - 1) :
                   EmissionRank(value_bets[i])[d] = EmissionRank(value_bets[j])[d]

\* the anchor lists one fixture, and the one soft book quotes the same
\* fixture with the anchor's 1x2 odds but for a longer price on home
LongerHomeScenario ==
    /\ anchor_events = <<AnchorAjax>>
    /\ Len(soft_books) = 1
    /\ soft_books[1].book_events = <<SoftAjaxLonger>>

\* C19: with a bankroll that is not negative every returned ValueBet has a
\* recommended_stake between 0 and 5% of the bankroll and an expected_value
\* of recommended_stake * edge; a soft book quoting the anchor's fixture
\* with a longer price on home yields a ValueBet on home of positive edge.
C19_StakeWithinBankroll ==
    (gpc = "done" /\ RLe(RInt(0), bankroll)) =>
       /\ \A i \in 1..Len(value_bets) :
             /\ RLe(RInt(0), value_bets[i].recommended_stake)
             /\ RLe(value_bets[i].recommended_stake,
                    RMul(bankroll, Rat(5, 100)))
             /\ value_bets[i].expected_value =
                   RMul(value_bets[i].recommended_stake,
                        RDiv(value_bets[i].edge_percentage, RInt(100)))
       /\ LongerHomeScenario =>
             \E i \in 1..Len(value_bets) :
                /\ value_bets[i].market = "1x2"
                /\ value_bets[i].outcome = "home"
                /\ RLt(RInt(0), value_bets[i].edge_percentage)

\* C19 witness: the scenario returned its ValueBet on home for a positive
\* bankroll, staked at the cap of 5%.
C19_Witness ==
    /\ gpc = "done" /\ RLt(RInt(0), bankroll)
    /\ LongerHomeScenario
    /\ \E i \in 1..Len(value_bets) :
          /\ value_bets[i].outcome = "home"
          /\ RLt(RInt(0), value_bets[i].edge_percentage)
          /\ value_bets[i].recommended_stake = RMul(bankroll, Rat(5, 100))
          /\ RLt(RInt(0), value_bets[i].expected_value)

(***************************************************************************)
(* Properties of normalize_team_name.                                      *)
(***************************************************************************)
LowerCased(name) == MapSeq(name, LowerChar)

\* the two names differ only by case
SameButCase(a, b) == LowerCased(a) = LowerCased(b)

IsAliasKey(s) == \E p \in TEAM_ALIASES : p[1] = s

\* the two names are variants the alias table lists for one canonical id
AliasVariants(a, b) ==
    LET ids == AliasHits(LowerCased(a))
    IN  ids # {} /\ ids = AliasHits(LowerCased(b))

\* long is short followed by one token of the suffix pattern
SuffixAdded(short, long) ==
    \E tok \in SuffixTokens :
       LowerCased(long) = LowerCased(short) \o <<" ">> \o tok

\* as SuffixAdded, where short is a key of the alias table and long is not,
\* nor is long without a prefix token
SuffixAddedToKey(short, long) ==
    /\ SuffixAdded(short, long)
    /\ IsAliasKey(LowerCased(short))
    /\ ~IsAliasKey(LowerCased(long))
    /\ ~IsAliasKey(WithoutPrefix(LowerCased(long)))

ClaimNames == {ManUtd, ManchesterUnited, ManchesterUnitedFc}

\* C20 (as claimed): "Man Utd", "Manchester United" and "manchester united
\* fc" have the same canonical string, and so have any two names that differ
\* only by case, by an alias-table variant or by a known suffix token.
C20_VariantsSameCanonical ==
    cpc = "returned" =>
       /\ args.name \in ClaimNames =>
             \A m \in ClaimNames : normalize_team_name(m) = ret
       /\ \A m \in NamePool :
             (\/ SameButCase(args.name, m)
              \/ AliasVariants(args.name, m)
              \/ SuffixAdded(args.name, m)
              \/ SuffixAdded(m, args.name)) =>
                normalize_team_name(m) = ret

\* C20 (amended): the three names have the same canonical string, and so
\* have names that differ only by case or by an alias-table variant; a known
\* suffix token added to a name leaves the canonical string the same where
\* the name is a key of the alias table and the longer name is not, with or
\* without its prefix token.
C20_VariantsSameCanonicalAmended ==
    cpc = "returned" =>
       /\ args.name \in ClaimNames =>
             \A m \in ClaimNames : normalize_team_name(m) = ret
       /\ \A m \in NamePool :
             (\/ SameButCase(args.name, m)
              \/ AliasVariants(args.name, m)
              \/ SuffixAddedToKey(args.name, m)
              \/ SuffixAddedToKey(m, args.name)) =>
                normalize_team_name(m) = ret

\* C20 witness: "manchester united fc" was normalized, by way of the suffix
\* lookup, to the canonical string of "Man Utd".
C20_Witness ==
    /\ cpc = "returned"
    /\ args.name = ManchesterUnitedFc
    /\ ~IsAliasKey(args.name)
    /\ SuffixAddedToKey(ManchesterUnited, args.name)
    /\ AliasVariants(ManUtd, ManchesterUnited)
    /\ ret = LowerCased(ManchesterUnited)
    /\ ret = normalize_team_name(ManUtd)

\* C21: normalize_team_name returns the empty string for the empty name
\* only: every name of at least one character, names of whitespace or of
\* replaced punctuation included, has a canonical string that is not empty.
C21_EmptyOnlyForEmpty ==
    cpc = "returned" => (ret = <<>> <=> args.name = <<>>)

(***************************************************************************)
(* Further properties of match_events.                                     *)
(***************************************************************************)
\* the right events whose kickoff parses, in order
WellFormedRight == SelectSeq(right, LAMBDA e : WellFormedKickoff(e.kickoff_utc))

\* pairs as <<left position, right event>>
AsRightEvents(m, rs) == [k \in 1..Len(m) |-> <<m[k][1], rs[m[k][2]]>>]

\* C22 (as claimed): a right event whose kickoff does not parse changes
\* nothing: the pairs returned are those returned for the right list
\* without the malformed events.
C22_MalformedRightIgnored ==
    pc = "done" =>
       AsRightEvents(matches, right)
          = AsRightEvents(match_events(left, WellFormedRight,
                                       time_tolerance_minutes, min_similarity),
                          WellFormedRight)

\* the qualifying candidates of minimum score for the left event at li
MinimumScore(li, candidates) ==
    {idx \in candidates :
        \A other \in candidates :
           ClaimScore(left[li], right[idx]) <= ClaimScore(left[li], right[other])}

\* C23 (as claimed): the pairs are in left-list order; every processed left
\* event with a qualifying candidate is paired with its candidate of
\* minimum score, the earliest in the right list among equals, whatever
\* that leaves for the left events after it.
C23_LeftPriority ==
    /\ \A j, k \in 1..Len(matches) : j < k => matches[j][1] < matches[k][1]
    /\ \A li \in 1..(pos - 1) :
          Qualifying(li, UsedBefore(li)) # {} =>
             \E k \in 1..Len(matches) :
                /\ matches[k][1] = li
                /\ matches[k][2]
                      = MinOf(MinimumScore(li, Qualifying(li, UsedBefore(li))))

(***************************************************************************)
(* Further properties of generate_value_bets.                              *)
(***************************************************************************)
\* check_home_away_swap adopts the swapped orientation of the soft market
SwapAdopted(normal, anchor, chosen) ==
    /\ RealMapping(normal) /\ RealMapping(anchor) /\ RealMapping(chosen)
    /\ chosen # normal

\* the soft market as the correctly labelled feed would quote it
Relabelled(soft_market) ==
    [keys |-> soft_market.keys,
     val |-> [k \in KeySet(soft_market) |->
                soft_market.val[IF k = "home" THEN "away"
                                ELSE IF k = "away" THEN "home" ELSE k]]]

\* the (outcome, edge_percentage) results of a 1x2 market against the anchor
EdgeResults(soft_market, anchor_market, anchor_probs) ==
    {<<o, RMul(RInt(100), calculate_edge(anchor_probs.probs.val[o],
                                         soft_market.val[o]))>> :
        o \in {k \in MarketOutcomes(anchor_market) \cap KeySet(soft_market) :
                  RLe(min_edge, calculate_edge(anchor_probs.probs.val[k],
                                               soft_market.val[k]))}}

\* the (outcome, edge_percentage) results returned for the 1x2 market of a
\* soft event of a book
ReturnedResults(book_name, soft_event) ==
    {<<value_bets[i].outcome, value_bets[i].edge_percentage>> :
        i \in {j \in 1..Len(value_bets) :
                  /\ value_bets[j].bookmaker = book_name
                  /\ value_bets[j].market = "1x2"
                  /\ IsSoftEventOf(value_bets[j], soft_event)}}

Has1x2(e) == "1x2" \in KeySet(e.markets)

\* the matched pairs of a book whose 1x2 markets make check_home_away_swap
\* adopt the swapped orientation
SwappedPairs(ps) ==
    {k \in 1..Len(ps) :
        /\ Has1x2(ps[k][1]) /\ Has1x2(ps[k][2])
        /\ SwapAdopted(remove_vig_multiplicative(ps[k][1].markets.val["1x2"]),
                       remove_vig_multiplicative(ps[k][2].markets.val["1x2"]),
                       check_home_away_swap(ps[k][1].markets.val["1x2"],
                                            ps[k][2].markets.val["1x2"]))}

SwappedResultsRight(book_name, ps) ==
    \A k \in SwappedPairs(ps) :
       ReturnedResults(book_name, ps[k][1])
          = EdgeResults(Relabelled(ps[k][1].markets.val["1x2"]),
                        ps[k][2].markets.val["1x2"],
                        remove_vig_multiplicative(ps[k][2].markets.val["1x2"]))

\* C24 (as claimed): where the swapped orientation of a soft 1x2 market is
\* adopted, the ValueBets returned for it have the outcomes and edges the
\* correctly labelled market gives.
C24_SwapKeepsEdges ==
    gpc = "done" =>
       \A b \in 1..Len(soft_books) :
          SwappedResultsRight(soft_books[b].book_name,
                              BookPairs(soft_books[b].book_events))

\* the odds of a market are all above 1.0 and their implied probabilities
\* sum to 1 or more
Overround(m) ==
    /\ \A k \in MarketOutcomes(m) : IsNumber(m.val[k]) /\ RLt(RInt(1), m.val[k])
    /\ RLe(RInt(1),
           RSum([i \in 1..Len(m.keys) |->
                   IF m.keys[i] \in MarketOutcomes(m)
                   THEN RDiv(RInt(1), m.val[m.keys[i]]) ELSE RInt(0)]))

\* the two markets quote the same odds for the same outcomes
SameOdds(soft_market, anchor_market) ==
    /\ MarketOutcomes(soft_market) = MarketOutcomes(anchor_market)
    /\ \A k \in MarketOutcomes(soft_market) :
          soft_market.val[k] = anchor_market.val[k]

\* the market types for which the pair quotes the anchor's own odds
SamePriced(soft_event, anchor_event) ==
    {mt \in KeySet(soft_event.markets) \cap KeySet(anchor_event.markets) :
        /\ SameOdds(soft_event.markets.val[mt], anchor_event.markets.val[mt])
        /\ Overround(anchor_event.markets.val[mt])}

NoBetFor(book_name, soft_event, market_types) ==
    \A i \in 1..Len(value_bets) :
       ~(/\ value_bets[i].bookmaker = book_name
         /\ IsSoftEventOf(value_bets[i], soft_event)
         /\ value_bets[i].market \in market_types)

NoBetAtAnchorPrice(book_name, ps) ==
    \A k \in 1..Len(ps) :
       NoBetFor(book_name, ps[k][1], SamePriced(ps[k][1], ps[k][2]))

\* C25 (as claimed): with min_edge > 0 no ValueBet is returned for a market
\* of a matched pair in which the soft book quotes the anchor's own odds.
C25_NoValueAtAnchorPrice ==
    (gpc = "done" /\ RLt(RInt(0), min_edge)) =>
       \A b \in 1..Len(soft_books) :
          NoBetAtAnchorPrice(soft_books[b].book_name,
                             BookPairs(soft_books[b].book_events))

\* what a book got: its bets without the name of the book
BookResults(book_name) ==
    {<<value_bets[i].league, value_bets[i].kickoff, value_bets[i].home,
       value_bets[i].away, value_bets[i].market, value_bets[i].outcome,
       value_bets[i].edge_percentage>> :
        i \in {j \in 1..Len(value_bets) : value_bets[j].bookmaker = book_name}}

\* C26: the matched pairs of one provider share no soft event and no anchor
\* event; no two ValueBets have the same bookmaker, soft event, market and
\* outcome; and the anchor events one provider is paired with stay
\* available to the others: two providers with the same events get the
\* same bets.
C26_OneToOnePerProvider ==
    /\ \A i, j \in 1..Len(pairs) :
          i # j => pairs[i][1] # pairs[j][1] /\ pairs[i][2] # pairs[j][2]
    /\ \A i, j \in 1..Len(value_bets) :
          i # j =>
             <<value_bets[i].bookmaker, value_bets[i].league,
               value_bets[i].kickoff, value_bets[i].home, value_bets[i].away,
               value_bets[i].market, value_bets[i].outcome>>
             # <<value_bets[j].bookmaker, value_bets[j].league,
                 value_bets[j].kickoff, value_bets[j].home, value_bets[j].away,
                 value_bets[j].market, value_bets[j].outcome>>
    /\ gpc = "done" =>
          \A b, c \in 1..Len(soft_books) :
             soft_books[b].book_events = soft_books[c].book_events =>
                BookResults(soft_books[b].book_name)
                   = BookResults(soft_books[c].book_name)

\* C26 witness: two providers list the same two soft events of one fixture;
\* each provider got the anchor event for its first soft event, and bets
\* were returned for both providers.
C26_Witness ==
    /\ gpc = "done" /\ Len(soft_books) = 2
    /\ anchor_events = <<AnchorAjax>>
    /\ \A b \in 1..2 :
          /\ soft_books[b].book_events = <<SoftAjaxSame, SoftAjaxLonger>>
          /\ BookResults(soft_books[b].book_name) # {}
          /\ \A r \in BookResults(soft_books[b].book_name) :
                RLt(r[7], RInt(30))

\* the stake the claim states: the capped fractional Kelly stake on
\* edge / (odds - 1)
ClaimStake(edge, price, stake_bankroll, kelly_fraction) ==
    RMin(RMul(RMax(RInt(0),
                   RMul(kelly_fraction, RDiv(edge, RSub(price, RInt(1))))),
              stake_bankroll),
         RMul(MAX_STAKE_PERCENTAGE, stake_bankroll))

\* the calls the claim is about
ClaimKellyCase(a) ==
    RLt(RInt(0), a.edge) /\ RLt(RInt(1), a.odds) /\ RLe(RInt(0), a.bankroll)

\* C27: for edge > 0, odds > 1 and bankroll >= 0 the returned stake is
\* min(max(0, kelly_fraction * edge / (odds - 1)) * bankroll,
\* 0.05 * bankroll); a smaller positive edge never gives a larger stake and
\* shorter odds above 1 never give a smaller stake.
C27_StakeClosedForm ==
    (cpc = "returned" /\ ClaimKellyCase(args)) =>
       /\ ret = ClaimStake(args.edge, args.odds, args.bankroll,
                           args.kelly_fraction)
       /\ \A e \in KellyEdges :
             (RLt(RInt(0), e) /\ RLe(e, args.edge)) =>
                RLe(kelly_stake(e, args.odds, args.bankroll,
                                args.kelly_fraction), ret)
       /\ \A o \in KellyOdds :
             (RLt(RInt(1), o) /\ RLe(o, args.odds)) =>
                RLe(ret, kelly_stake(args.edge, o, args.bankroll,
                                     args.kelly_fraction))

\* C27 witness: edge 0.1 at odds 5.0 on a bankroll of 1000 returned the
\* uncapped quarter-Kelly stake 6.25, above the stake of the smaller edge
\* 0.025 and below the capped stake of the shorter odds 2.0.
C27_Witness ==
    /\ cpc = "returned"
    /\ args = [edge |-> Rat(1, 10), odds |-> RInt(5),
               bankroll |-> RInt(1000), kelly_fraction |-> KELLY_FRACTION]
    /\ ret = Rat(25, 4)
    /\ RLt(kelly_stake(Rat(1, 40), RInt(5), RInt(1000), KELLY_FRACTION), ret)
    /\ kelly_stake(Rat(1, 10), RInt(2), RInt(1000), KELLY_FRACTION)
          = RInt(25)
    /\ RLt(ret, StakeCap)

\* the callers whose request is in flight
InFlight == {c \in Callers : hpc[c] = "request"}

\* the caller has called get or post_json
Called(c) == hpc[c] # "start"

\* the original reading of a retry: no response was received in the attempt
\* before a sleep
RetryWithoutResponse(c) == hpc[c] = "sleep" => resp_status[c] = NoResponse

\* what holds of one caller at every moment of _request_with_retry
AttemptsBounded(c) ==
    /\ attempt[c] <= retries
    /\ hpc[c] = "sleep" =>
          /\ attempt[c] < retries
          /\ delay[c] = Rat(attempt[c] + 1, 2)
    /\ hpc[c] = "returned" =>
          /\ hret[c] \in {"body", "None"}
          /\ hret[c] = "body" => resp_status[c] = <<200>>
          /\ (resp_status[c] = NoResponse) =>
                (attempt[c] = retries /\ hret[c] = "None")

\* C28, as stated: every call makes at most retries+1 attempts, sleeps
\* 0.5*(attempt+1) seconds before a further attempt and never after the
\* last one, starts a further attempt only when no response was received,
\* returns the body or None, returns None when every attempt raised, and
\* every call returns.
C28_Terminates ==
    /\ [](\A c \in Callers : AttemptsBounded(c) /\ RetryWithoutResponse(c))
    /\ \A c \in Callers : Called(c) ~> (hpc[c] = "returned")

\* what remains of the statement when a retry may also follow a response
\* whose body could not be awaited (status 200, lines 44-46, or a status
\* handled by line 53): a response with status 204, 304 or 404 always ends
\* the call, and every call returns
TerminatesAfterRaises ==
    /\ [](\A c \in Callers :
             /\ AttemptsBounded(c)
             /\ hpc[c] = "sleep" =>
                   resp_status[c] \in {NoResponse} \cup
                      {<<s>> : s \in Statuses \ EmptyStatuses})
    /\ \A c \in Callers : Called(c) ~> (hpc[c] = "returned")

\* C29: at most `concurrency` requests are in flight; the permits out are
\* exactly the requests in flight, so a caller that returned, sleeps or
\* waits holds none; callers wait only while no permit is free; and every
\* waiting caller gets its permit.
C29_BoundedInFlight ==
    /\ [](/\ Cardinality(InFlight) <= concurrency
          /\ semaphore + Cardinality(InFlight) = concurrency
          /\ waiters # <<>> => semaphore = 0
          /\ \A c \in Callers :
                hpc[c] = "waiting" <=> \E k \in 1..Len(waiters) : waiters[k] = c)
    /\ \A c \in Callers : (hpc[c] = "waiting") ~> (hpc[c] = "request")

\* C29 witness: on a client with one permit a caller sleeps before its
\* retry while the request of another caller, which had to wait, is in
\* flight with that permit
C29_Witness ==
    /\ concurrency = 1 /\ semaphore = 0 /\ waiters = <<>>
    /\ \E c \in Callers : hpc[c] = "sleep" /\ attempt[c] = 0
    /\ \E c \in Callers : hpc[c] = "request" /\ attempt[c] = 0

\* C30: with a bankroll >= 0 a run whose analysis returned at least one
\* ValueBet does not raise, whatever the stakes are; and a run without
\* anchor events neither analyses nor writes a result file, and does not
\* raise.
C30_NeverCrashes ==
    /\ (RLe(RInt(0), bankroll) /\ gpc = "done" /\ value_bets # <<>>) =>
          mpc # "raised"
    /\ anchor_events = <<>> =>
          /\ mpc \in {"collected", "ended"}
          /\ gpc = "idle"
          /\ output \cap ResultFiles = {}

=============================================================================
